---- MODULE Spec2Model ----
(***************************************************************************)
(* lazyworktree: the worktree dashboard's background workers, its mutation *)
(* pipelines (create / delete / absorb), the refresh of the canonical      *)
(* worktree list, the status-query admission gate and the porcelain        *)
(* parsers, as state machines translated from src/lazyworktree.            *)
(***************************************************************************)
EXTENDS Integers, Sequences, FiniteSets, TLC

\* ------------------------------------------------------------------ bounds
MaxRuns == 1
MaxRefresh == 3
MaxEnums == 2
MaxWorktrees == 25
MaxListingLines == 3
MaxStatusLines == 3
MaxEnumWorktrees == 3
MaxBranchLines == 2
MaxCalls == 3
MaxQueries == 2
MaxUntracked == 12

\* ------------------------------------------------------- application state
VARIABLES
    worktrees,          \* GitWtStatus.worktrees: the canonical list
    cursor,             \* row key (path) under the table cursor, or NoRow
    screen,             \* "main", or the modal pushed: "confirm" / "input"
    pending,            \* the closure the modal's callback holds
    runs,               \* mutation workers started by run_worker, in start order
    nrefresh,           \* number of refresh_data workers started so far
    refreshing,         \* ids of the refresh_data workers still in flight
    superseded,         \* refreshes that were in flight when a later one started
    written,            \* refreshes that assigned self.worktrees
    writer,             \* the refresh whose result self.worktrees holds (0: none)
    active,             \* which of the other @work methods have a worker in flight
    pr_data_loaded,     \* GitWtStatus._pr_data_loaded
    main_branch,        \* GitWtStatus._main_branch ("" = not resolved)
    main_rejected,      \* a "Cannot ... main worktree" notification was shown
    declined            \* the last modal was dismissed without a usable answer

appvars == <<worktrees, cursor, screen, pending, runs, nrefresh, refreshing,
             superseded, written, writer, active, pr_data_loaded, main_branch,
             main_rejected, declined>>

\* ------------------------------------------------- admission gate state
VARIABLES
    sem_value,          \* asyncio.Semaphore: permits free (self._semaphore._value)
    sem_waiters,        \* its FIFO of blocked acquirers, each named by its enumeration
    enums               \* the get_worktrees calls on this instance, by call number

gatevars == <<sem_value, sem_waiters, enums>>

\* ------------------------------------------------------ enumeration state
\* Text is a sequence of lines, a line a sequence of atoms: single characters,
\* or words without a space that the code only ever handles whole.
VARIABLES
    stage,              \* how far the enumeration at hand has got
    raw_wts,            \* what run_git returned for `git worktree list --porcelain`
    wts,                \* the dicts parsed from it
    result,             \* what get_worktrees returns or raises
    status_raw,         \* what run_git returned for `git status --porcelain=v2 --branch`
    info                \* what get_wt_info returns or raises for it

parsevars == <<stage, raw_wts, wts, result, status_raw, info>>

VARIABLES
    impl,               \* whose get_worktrees runs: GitService's or GitWtStatus's
    branch_raw,         \* what run_git returned for `git for-each-ref ... refs/heads`
    branch_info,        \* the dict parsed from it
    issued,             \* the commands the enumeration has started, in order
    query_infos,        \* per record, what its get_wt_info has returned so far
    done_order,         \* the records' numbers in the order their queries completed
    broken              \* directories where `git status` prints a malformed summary

enumvars == <<impl, branch_raw, branch_info, issued, query_infos, done_order,
              broken>>

\* ------------------------------------------------------- runner state
VARIABLES
    notified_errors,    \* GitWtStatus._notified_errors: the dedup keys seen
    calls,              \* the run_git / _run_command_checked calls made, in order
    call                \* the last of them, with what it was given and returned

runnervars == <<notified_errors, calls, call>>

\* --------------------------------------------------- divergence state
VARIABLES
    divergence_cache,   \* GitWtStatus._divergence_cache, by cache key
    wt_divergence,      \* the divergence field of the current records, by path
    view,               \* the update_details_view worker: where its get_div waits
    absorbing,          \* a do_absorb worker waits in get_main_branch
    lookups,            \* symbolic-ref lookups started so far
    revlists,           \* rev-list queries started since the last mutation, by path
    returned,           \* the values get_main_branch calls have returned
    last_div            \* the last get_div return: its worktree and its value

divvars == <<divergence_cache, wt_divergence, view, absorbing, lookups, revlists,
             returned, last_div>>

\* ------------------------------------------------------ pull request state
VARIABLES
    pr_records,         \* self.worktrees: the branch and the pr field of each record
    pr_fetch,           \* fetch_pr_data_async waits for the listing query
    pr_refresh,         \* refresh_data waits for get_worktrees
    pr_queries,         \* listing queries started since the last refresh or failed fetch
    pr_noticed,         \* the "already loaded" notice was shown since the last refresh
    pr_last             \* the last fetch_pr_data run: its input and how it ended

prvars == <<pr_records, pr_fetch, pr_refresh, pr_queries, pr_noticed, pr_last>>

\* -------------------------------------------------------------- diff state
VARIABLES
    diff_in,            \* what the view's queries print and how delta behaves
    diff_stage,         \* where _build_diff_text / _build_commit_view stands
    diff_done,          \* the three queries of _build_diff_text in completion order
    file_queries,       \* per-file diff queries started for untracked names
    assembled,          \* diff_text before truncation
    delta_input,        \* the text _apply_delta was called with
    diff_result         \* what the builder returned: info, text, use_delta

diffvars == <<diff_in, diff_stage, diff_done, file_queries, assembled, delta_input,
              diff_result>>

\* the application state other than main_branch
appframe == <<worktrees, cursor, screen, pending, runs, nrefresh, refreshing,
              superseded, written, writer, active, pr_data_loaded, main_rejected,
              declined>>

\* the application state other than pr_data_loaded
appframe_pr == <<worktrees, cursor, screen, pending, runs, nrefresh, refreshing,
                 superseded, written, writer, active, main_branch, main_rejected,
                 declined>>

\* ------------------------------------------------------------- table state
VARIABLES
    table_worktrees,    \* self.worktrees: path, branch, is_main, last_active_ts
    filter_query,       \* GitWtStatus.filter_query
    sort_by_active,     \* GitWtStatus.sort_by_active
    rows,               \* the row keys (paths) of #worktree-table, top to bottom
    cursor_row,         \* the table's cursor row, counted from 1 (0: no row)
    last_event          \* the handler that ran last

tablevars == <<table_worktrees, filter_query, sort_by_active, rows, cursor_row,
               last_event>>

vars == <<appvars, gatevars, parsevars, enumvars, runnervars, divvars, prvars,
         diffvars, tablevars>>

MainPath == "repo"
LinkedPaths == {"wt1"}
NoRow == "none"
NoPending == [op |-> "none"]

\* What `git worktree list` can report: nothing (the command failed), or the
\* main worktree first and then linked worktrees, each once.
Snapshots == {<<>>, <<MainPath>>, <<MainPath, "wt1">>}

\* The records get_worktrees builds from a listing: is_main marks the first.
Records(snap) ==
    [i \in 1..Len(snap) |-> [path |-> snap[i], is_main |-> (i = 1)]]

PathsOf(recs) == {recs[i].path : i \in 1..Len(recs)}

\* next((w for w in self.worktrees if w.path == path), None)
FindWorktree(path) ==
    IF \E i \in 1..Len(worktrees) : worktrees[i].path = path
    THEN worktrees[CHOOSE i \in 1..Len(worktrees) : worktrees[i].path = path]
    ELSE [path |-> NoRow, is_main |-> FALSE]

Max(S) == CHOOSE x \in S : \A y \in S : y <= x

\* ------------------------------------------------------ mutation pipelines
\* The awaited steps of each pipeline, in program order.
Steps(op) ==
    CASE op = "create" -> <<"list_main", "worktree_add", "hooks">>
      [] op = "delete" -> <<"list_main", "hooks", "worktree_remove", "branch_delete">>
      [] op = "absorb" -> <<"list_main", "hooks", "symbolic_ref", "checkout",
                            "merge", "worktree_remove", "branch_delete">>

StopsOnFailure_merge_unchecked(op, cmd) ==
    cmd \in {"worktree_add", "checkout", "worktree_remove", "branch_delete"}

StopsOnFailure_add_unchecked(op, cmd) ==
    cmd \in {"checkout", "merge", "worktree_remove", "branch_delete"}

StopsOnFailure_hooks_checked(op, cmd) ==
    cmd \in {"worktree_add", "hooks", "checkout", "merge", "worktree_remove",
             "branch_delete"}

StopsOnFailure_remove_unchecked(op, cmd) ==
    cmd \in {"worktree_add", "checkout", "merge", "branch_delete"}

\* `if not <step result>: return` (and create's returncode test): a failure of
\* these steps ends the pipeline; the other steps' results are not tested.
StopsOnFailure(op, cmd) ==
    cmd \in {"worktree_add", "checkout", "merge", "worktree_remove", "branch_delete"}

\* A step is skipped without an await: the hook step when the main worktree has
\* no .wt file, the symbolic-ref lookup when the main branch is memoized.
Skipped(cmd, has_wt_file) ==
    \/ cmd = "hooks" /\ ~has_wt_file
    \/ cmd = "symbolic_ref" /\ main_branch # ""

RECURSIVE NextPc(_, _, _)
NextPc(op, k, has_wt_file) ==
    IF k > Len(Steps(op)) THEN k
    ELSE IF Skipped(Steps(op)[k], has_wt_file) THEN NextPc(op, k + 1, has_wt_file)
    ELSE k

\* What the pipeline keeps of a step's result: the boolean it tests, the hook
\* step's outcome (reported, not tested); the main worktree path falls back to
\* the current directory and the main branch to "main", so those two lookups
\* give the pipeline a value either way.
Observed(cmd, res) ==
    IF cmd \in {"list_main", "symbolic_ref"} THEN "done" ELSE res

NewRun(op, wt) ==
    [op |-> op, wt |-> wt, pc |-> 1,
     log |-> <<[cmd |-> Steps(op)[1], res |-> "pending"]>>,
     outcome |-> "running", errs |-> 0, triggered |-> 0, config_err |-> FALSE]

\* --------------------------------------------------------- worker manager
Exclusive_refresh_not(kind) ==
    kind \in {"update_details_view", "fetch_pr_data_async", "fetch_remotes_async"}

\* @work(exclusive=True) methods and run_worker(...) calls all use the group
\* "default" of the app node; an exclusive start cancels every worker of it.
Exclusive(kind) ==
    kind \in {"refresh_data", "update_details_view", "fetch_pr_data_async",
              "fetch_remotes_async"}

\* A cancelled mutation worker gets CancelledError at its await: the pending
\* step's result is never seen and `except Exception` does not catch it.
CancelRun(r) ==
    IF r.outcome = "running"
    THEN [r EXCEPT !.outcome = "cancelled", !.log[Len(r.log)].res = "cancelled"]
    ELSE r

\* Starting a worker of `kind`. rs: the mutation workers, left: the refresh
\* workers, others: the other workers, each as the caller leaves them (a caller
\* that is itself a worker on its last statement has taken itself out).
StartWorker(kind, rs, left, others) ==
    /\ runs' = IF Exclusive(kind) THEN [i \in DOMAIN rs |-> CancelRun(rs[i])] ELSE rs
    /\ refreshing' = (IF Exclusive(kind) THEN {} ELSE left)
                     \cup (IF kind = "refresh_data" THEN {nrefresh + 1} ELSE {})
    /\ active' = (IF Exclusive(kind) THEN {} ELSE others)
                 \cup ({kind} \ {"refresh_data", "run_worker"})
    /\ nrefresh' = IF kind = "refresh_data" THEN nrefresh + 1 ELSE nrefresh
    /\ superseded' = IF kind = "refresh_data" THEN superseded \cup left ELSE superseded

\* ---------------------------------------------------------------- actions
AppInit ==
    /\ worktrees = <<>>
    /\ cursor = NoRow
    /\ screen = "main"
    /\ pending = NoPending
    /\ runs = <<>>
    /\ nrefresh = 1              \* on_mount: self.refresh_data()
    /\ refreshing = {1}
    /\ superseded = {}
    /\ written = {}
    /\ writer = 0
    /\ active = {}
    /\ pr_data_loaded = FALSE
    /\ main_branch = ""
    /\ main_rejected = FALSE
    /\ declined = FALSE

\* self._semaphore = asyncio.Semaphore(24)
Cap == 24
IdleEnum == [st |-> "idle", n |-> 0, holding |-> 0, finished |-> 0]

GateInit ==
    /\ sem_value = Cap
    /\ sem_waiters = <<>>
    /\ enums = [e \in 1..MaxEnums |-> IdleEnum]

NoCounts == [ahead |-> 0, behind |-> 0, untracked |-> 0, modified |-> 0, staged |-> 0]
NoRecord == [path |-> <<>>, branch |-> <<>>, is_main |-> FALSE, dirty |-> FALSE,
             ahead |-> 0, behind |-> 0, untracked |-> 0, modified |-> 0, staged |-> 0]
NoResult == [kind |-> "none", recs |-> <<>>]
NoInfo == [kind |-> "none", rec |-> NoRecord]

\* No enumeration has produced output yet.
ParseIdle ==
    /\ stage = "idle"
    /\ raw_wts = <<>>
    /\ wts = <<>>
    /\ result = NoResult
    /\ status_raw = <<>>
    /\ info = NoInfo

EnumIdle ==
    /\ impl = "GitService"
    /\ branch_raw = <<>>
    /\ branch_info = <<>>
    /\ issued = <<>>
    /\ query_infos = <<>>
    /\ done_order = <<>>
    /\ broken = {}

NoCall == [fn |-> "none"]

RunnerIdle ==
    /\ notified_errors = {}
    /\ calls = <<>>
    /\ call = NoCall

\* the records of the session: the main worktree and one linked worktree
DivTrees ==
    { [path |-> MainPath, branch |-> "main", is_main |-> TRUE],
      [path |-> "wt1", branch |-> "feat", is_main |-> FALSE] }

NoView == [st |-> "none", path |-> NoRow, issued |-> 0, dropped |-> FALSE]
DivIdle ==
    /\ divergence_cache = <<>>
    /\ wt_divergence = [p \in {t.path : t \in DivTrees} |-> <<>>]
    /\ view = NoView
    /\ absorbing = FALSE
    /\ lookups = 0
    /\ revlists = [p \in {t.path : t \in DivTrees} |-> 0]
    /\ returned = {}
    /\ last_div = [path |-> NoRow, value |-> <<>>]

NoDoc == [type |-> "none", items |-> <<>>]

\* the records a refresh installs: pr is None
FreshRecords == << [branch |-> "main", pr |-> <<>>], [branch |-> "feat", pr |-> <<>>] >>

PrIdle ==
    /\ pr_records = FreshRecords
    /\ pr_fetch = FALSE
    /\ pr_refresh = FALSE
    /\ pr_queries = 0
    /\ pr_noticed = FALSE
    /\ pr_last = [raw |-> [text |-> "", doc |-> NoDoc], outcome |-> "idle"]

\* max_untracked_diffs = 10, max_chars = 200_000
max_untracked_diffs == 10
max_chars == 200000

NoDiffResult == [info |-> <<>>, text |-> <<>>, use_delta |-> FALSE]
DiffIdle ==
    /\ diff_in = [kind |-> "none"]
    /\ diff_stage = "idle"
    /\ diff_done = <<>>
    /\ file_queries = 0
    /\ assembled = <<>>
    /\ delta_input = <<>>
    /\ diff_result = NoDiffResult

\* sort_by_active: bool = True; filter_query: str = ""
TableIdle ==
    /\ table_worktrees = <<>>
    /\ filter_query = <<>>
    /\ sort_by_active = TRUE
    /\ rows = <<>>
    /\ cursor_row = 0
    /\ last_event = "mount"

Init ==
    /\ AppInit /\ GateInit /\ ParseIdle /\ EnumIdle /\ RunnerIdle /\ DivIdle /\ PrIdle
    /\ DiffIdle /\ TableIdle

RejectsMain_never(wt) == FALSE

\* if wt.is_main: self.notify("Cannot ... main worktree"); return
RejectsMain(wt) == wt.is_main

\* action_delete / action_absorb, up to push_screen(ConfirmScreen(...)).
action_mutate(op) ==
    /\ screen = "main"
    /\ Len(runs) < MaxRuns
    /\ cursor # NoRow
    /\ LET wt == FindWorktree(cursor) IN
        /\ wt.path # NoRow
        /\ IF RejectsMain(wt)
           THEN /\ main_rejected' = TRUE
                /\ UNCHANGED <<screen, pending>>
           ELSE /\ screen' = "confirm"
                /\ pending' = [op |-> op, wt |-> wt]
                /\ UNCHANGED main_rejected
    /\ UNCHANGED <<declined, worktrees, cursor, runs, nrefresh, refreshing, superseded,
                   written, writer, active, pr_data_loaded, main_branch>>
    /\ UNCHANGED <<gatevars, parsevars, enumvars, runnervars, divvars, prvars, diffvars, tablevars>>

action_delete == action_mutate("delete")
action_absorb == action_mutate("absorb")

\* ConfirmScreen dismissed: lambda confirm: self.run_worker(do_...(confirm)).
\* The worker returns at once on a negative answer; otherwise it notifies and
\* awaits its first step.
ConfirmDismissed(confirm) ==
    /\ screen = "confirm"
    /\ screen' = "main"
    /\ pending' = NoPending
    /\ IF confirm
       THEN /\ StartWorker("run_worker", Append(runs, NewRun(pending.op, pending.wt)),
                           refreshing, active)
       ELSE UNCHANGED <<runs, refreshing, active, nrefresh, superseded>>
    /\ UNCHANGED <<worktrees, cursor, written, writer, pr_data_loaded, main_branch,
                   main_rejected>>
    /\ declined' = ~confirm
    /\ UNCHANGED <<gatevars, parsevars, enumvars, runnervars, divvars, prvars, diffvars, tablevars>>

\* the name used as typed
Stripped_as_typed(name) == name

NameInputs == {"feat", " ", "", "dismissed"}
\* name.strip() of the inputs above
Stripped(name) == IF name = " " THEN "" ELSE name

action_create ==
    /\ screen = "main"
    /\ Len(runs) < MaxRuns
    /\ screen' = "input"
    /\ pending' = [op |-> "create"]
    /\ UNCHANGED <<worktrees, cursor, runs, nrefresh, refreshing, superseded,
                   written, writer, active, pr_data_loaded, main_branch, main_rejected,
                   declined>>
    /\ UNCHANGED <<gatevars, parsevars, enumvars, runnervars, divvars, prvars, diffvars, tablevars>>

\* InputScreen dismissed: lambda name: self.run_worker(on_submit(name)).
InputDismissed(name) ==
    /\ screen = "input"
    /\ screen' = "main"
    /\ pending' = NoPending
    /\ IF name # "dismissed" /\ Stripped(name) # ""
       THEN /\ StartWorker("run_worker",
                           Append(runs, NewRun("create", [path |-> Stripped(name),
                                                          is_main |-> FALSE])),
                           refreshing, active)
       ELSE UNCHANGED <<runs, refreshing, active, nrefresh, superseded>>
    /\ UNCHANGED <<worktrees, cursor, written, writer, pr_data_loaded, main_branch,
                   main_rejected>>
    /\ declined' = (name = "dismissed" \/ Stripped(name) = "")
    /\ UNCHANGED <<gatevars, parsevars, enumvars, runnervars, divvars, prvars, diffvars, tablevars>>

\* A mutation worker resumes from its await with the step's result and runs to
\* its next await or to its end. A .wt file that is there but does not load
\* (yaml.safe_load or config.get raises) is reported by the inner `except
\* Exception as config_err` and the pipeline goes on without the hook step.
RunStep(i, res, has_wt_file, loads) ==
    /\ i \in DOMAIN runs
    /\ runs[i].outcome = "running"
    /\ LET r == runs[i]
           cmd == Steps(r.op)[r.pc]
           nxt == NextPc(r.op, r.pc + 1, has_wt_file /\ loads)
           unloaded == /\ has_wt_file /\ ~loads
                       /\ ~(StopsOnFailure(r.op, cmd) /\ res = "fail")
                       /\ \E k \in (r.pc + 1)..(nxt - 1) : Steps(r.op)[k] = "hooks"
           seen == [r EXCEPT !.log[Len(r.log)].res = Observed(cmd, res),
                             !.config_err = @ \/ unloaded]
       IN
        /\ main_branch' = IF cmd = "symbolic_ref"
                          THEN (IF res = "ok" THEN "trunk" ELSE "main")
                          ELSE main_branch
        /\ IF StopsOnFailure(r.op, cmd) /\ res = "fail"
           THEN /\ runs' = [runs EXCEPT ![i] = [seen EXCEPT !.outcome = "failed",
                                                            !.errs = @ + 1]]
                /\ UNCHANGED <<refreshing, active, nrefresh, superseded, pr_data_loaded>>
           ELSE IF nxt <= Len(Steps(r.op))
           THEN /\ runs' = [runs EXCEPT ![i] =
                              [seen EXCEPT !.pc = nxt,
                                           !.log = Append(@, [cmd |-> Steps(r.op)[nxt],
                                                              res |-> "pending"])]]
                /\ UNCHANGED <<refreshing, active, nrefresh, superseded, pr_data_loaded>>
           ELSE /\ nrefresh < MaxRefresh
                /\ StartWorker("refresh_data",
                               [runs EXCEPT ![i] = [seen EXCEPT !.outcome = "succeeded",
                                                                !.triggered = @ + 1]],
                               refreshing, active)
                /\ pr_data_loaded' = FALSE
    /\ UNCHANGED <<worktrees, cursor, screen, pending, written, writer, main_rejected,
                   declined>>
    /\ UNCHANGED <<gatevars, parsevars, enumvars, runnervars, divvars, prvars, diffvars, tablevars>>

\* update_table: the cursor stays on its row key when that row is still there.
CursorAfterRebuild(paths, p) ==
    IF cursor \in paths THEN cursor = p
    ELSE IF paths = {} THEN p = NoRow
    ELSE p \in paths

\* refresh_data extending the list in place instead of assigning a new one.
RefreshDone_appending(id, snap) ==
    /\ id \in refreshing
    /\ worktrees' = worktrees \o Records(snap)
    /\ writer' = id
    /\ written' = written \cup {id}
    /\ cursor' = cursor
    /\ StartWorker("update_details_view", runs, refreshing \ {id}, active)
    /\ UNCHANGED <<screen, pending, pr_data_loaded, main_branch, main_rejected,
                   declined>>
    /\ UNCHANGED <<gatevars, parsevars, enumvars, runnervars, divvars, prvars, diffvars, tablevars>>

\* refresh_data resumes from `await self.get_worktrees()`: assigns the list,
\* rebuilds the table and ends with self.update_details_view().
RefreshDone(id, snap) ==
    /\ id \in refreshing
    /\ worktrees' = Records(snap)
    /\ writer' = id
    /\ written' = written \cup {id}
    /\ \E p \in PathsOf(Records(snap)) \cup {NoRow} :
        /\ CursorAfterRebuild(PathsOf(Records(snap)), p)
        /\ cursor' = p
    /\ StartWorker("update_details_view", runs, refreshing \ {id}, active)
    /\ UNCHANGED <<screen, pending, pr_data_loaded, main_branch, main_rejected,
                   declined>>
    /\ UNCHANGED <<gatevars, parsevars, enumvars, runnervars, divvars, prvars, diffvars, tablevars>>

\* action_cursor_down / action_cursor_up on the worktree table: the highlight
\* moves and on_data_table_row_highlighted calls self.update_details_view().
action_cursor(p) ==
    /\ screen = "main"
    /\ p \in PathsOf(worktrees)
    /\ p # cursor
    /\ cursor' = p
    /\ StartWorker("update_details_view", runs, refreshing, active)
    /\ UNCHANGED <<worktrees, screen, pending, written, writer, pr_data_loaded,
                   main_branch, main_rejected,
                   declined>>
    /\ UNCHANGED <<gatevars, parsevars, enumvars, runnervars, divvars, prvars, diffvars, tablevars>>

\* update_details_view runs to its end.
DetailsDone ==
    /\ "update_details_view" \in active
    /\ active' = active \ {"update_details_view"}
    /\ UNCHANGED <<worktrees, cursor, screen, pending, runs, nrefresh, refreshing,
                   superseded, written, writer, pr_data_loaded, main_branch,
                   main_rejected,
                   declined>>
    /\ UNCHANGED <<gatevars, parsevars, enumvars, runnervars, divvars, prvars, diffvars, tablevars>>

action_fetch_prs ==
    /\ screen = "main"
    /\ IF pr_data_loaded
       THEN UNCHANGED <<runs, refreshing, active, nrefresh, superseded>>
       ELSE StartWorker("fetch_pr_data_async", runs, refreshing, active)
    /\ UNCHANGED <<worktrees, cursor, screen, pending, written, writer,
                   pr_data_loaded, main_branch, main_rejected,
                   declined>>
    /\ UNCHANGED <<gatevars, parsevars, enumvars, runnervars, divvars, prvars, diffvars, tablevars>>

\* fetch_pr_data_async resumes from `await self.fetch_pr_data()`.
PrFetchDone(success) ==
    /\ "fetch_pr_data_async" \in active
    /\ pr_data_loaded' = (pr_data_loaded \/ success)
    /\ StartWorker("update_details_view", runs, refreshing,
                   active \ {"fetch_pr_data_async"})
    /\ UNCHANGED <<worktrees, cursor, screen, pending, written, writer, main_branch,
                   main_rejected,
                   declined>>
    /\ UNCHANGED <<gatevars, parsevars, enumvars, runnervars, divvars, prvars, diffvars, tablevars>>

action_fetch ==
    /\ screen = "main"
    /\ StartWorker("fetch_remotes_async", runs, refreshing, active)
    /\ UNCHANGED <<worktrees, cursor, screen, pending, written, writer,
                   pr_data_loaded, main_branch, main_rejected,
                   declined>>
    /\ UNCHANGED <<gatevars, parsevars, enumvars, runnervars, divvars, prvars, diffvars, tablevars>>

\* fetch_remotes_async resumes from `git fetch` and calls self.refresh_data().
FetchDone ==
    /\ "fetch_remotes_async" \in active
    /\ nrefresh < MaxRefresh
    /\ StartWorker("refresh_data", runs, refreshing, active \ {"fetch_remotes_async"})
    /\ pr_data_loaded' = FALSE
    /\ UNCHANGED <<worktrees, cursor, screen, pending, written, writer,
                   main_branch, main_rejected,
                   declined>>
    /\ UNCHANGED <<gatevars, parsevars, enumvars, runnervars, divvars, prvars, diffvars, tablevars>>

\* action_lazygit: lazygit ran in the foreground; then self.refresh_data().
action_lazygit ==
    /\ screen = "main"
    /\ cursor # NoRow
    /\ nrefresh < MaxRefresh
    /\ StartWorker("refresh_data", runs, refreshing, active)
    /\ pr_data_loaded' = FALSE
    /\ UNCHANGED <<worktrees, cursor, screen, pending, written, writer,
                   main_branch, main_rejected,
                   declined>>
    /\ UNCHANGED <<gatevars, parsevars, enumvars, runnervars, divvars, prvars, diffvars, tablevars>>

AppNext ==
    \/ action_delete
    \/ action_absorb
    \/ \E confirm \in BOOLEAN : ConfirmDismissed(confirm)
    \/ action_create
    \/ \E name \in NameInputs : InputDismissed(name)
    \/ \E i \in 1..MaxRuns, res \in {"ok", "fail"}, f \in BOOLEAN, loads \in BOOLEAN :
          RunStep(i, res, f, loads)
    \/ \E id \in 1..MaxRefresh, snap \in Snapshots : RefreshDone(id, snap)
    \/ \E p \in LinkedPaths \cup {MainPath} : action_cursor(p)
    \/ DetailsDone
    \/ action_fetch_prs
    \/ \E success \in BOOLEAN : PrFetchDone(success)
    \/ action_fetch
    \/ FetchDone
    \/ action_lazygit

Next == AppNext

Spec == Init /\ [][Next]_vars

\* Every external process terminates: a worker that waits for one resumes.
SpecLive ==
    /\ Init
    /\ [][Next]_vars
    /\ WF_vars(\E id \in 1..MaxRefresh, snap \in Snapshots : RefreshDone(id, snap))
    /\ WF_vars(\E success \in BOOLEAN : PrFetchDone(success))
    /\ WF_vars(DetailsDone)
    /\ WF_vars(FetchDone)
    /\ WF_vars(\E i \in 1..MaxRuns, res \in {"ok", "fail"}, f \in BOOLEAN,
                  loads \in BOOLEAN : RunStep(i, res, f, loads))

\* ------------------------------------------------------- admission gate
\* get_wt_info runs `async with self._semaphore` around its status query.
\* asyncio.gather starts the n coroutines of one enumeration back to back;
\* each either takes a free permit and awaits its subprocess, or joins the
\* semaphore's FIFO.
Min(a, b) == IF a < b THEN a ELSE b
ListingSizes == {2, 13, MaxWorktrees}
Waiting(e) == Cardinality({i \in DOMAIN sem_waiters : sem_waiters[i] = e})
Holding == LET RECURSIVE Sum(_)
               Sum(k) == IF k = 0 THEN 0 ELSE enums[k].holding + Sum(k - 1)
           IN Sum(MaxEnums)

\* A semaphore made per call instead of per instance.
Admitted_per_call(n, value, blocked) == Min(n, Cap)

\* Semaphore.acquire's fast path: `if not self.locked(): self._value -= 1`,
\* for n acquirers in a row.
Admitted(n, value, blocked) == IF blocked THEN 0 ELSE Min(n, value)

\* get_worktrees reaches `await asyncio.gather(*(get_wt_info(wt) for wt in wts))`
\* with n records.
gate_get_worktrees(e, n) ==
    /\ enums[e].st = "idle"
    /\ \A d \in 1..(e - 1) : enums[d].st # "idle"
    /\ LET k == Admitted(n, sem_value, sem_waiters # <<>>) IN
        /\ sem_value' = sem_value - k
        /\ sem_waiters' = sem_waiters \o [i \in 1..(n - k) |-> e]
        /\ enums' = [enums EXCEPT ![e] = [st |-> "running", n |-> n,
                                          holding |-> k, finished |-> 0]]
    /\ UNCHANGED <<appvars, parsevars, enumvars, runnervars, divvars, prvars, diffvars, tablevars>>

\* One status query of enumeration e leaves the `async with` block (returning
\* or raising): Semaphore.release wakes the first waiter, which then holds the
\* permit, or the permit returns to the semaphore.
status_done(e) ==
    /\ enums[e].st = "running"
    /\ enums[e].holding > 0
    /\ LET after == [enums EXCEPT ![e] =
                       [@ EXCEPT !.holding = @ - 1,
                                 !.finished = @ + 1,
                                 !.st = IF enums[e].finished + 1 = enums[e].n
                                        THEN "done" ELSE "running"]]
       IN IF sem_waiters # <<>>
          THEN /\ enums' = [after EXCEPT ![Head(sem_waiters)].holding = @ + 1]
               /\ sem_waiters' = Tail(sem_waiters)
               /\ UNCHANGED sem_value
          ELSE /\ enums' = after
               /\ sem_waiters' = sem_waiters
               /\ sem_value' = sem_value + 1
    /\ UNCHANGED <<appvars, parsevars, enumvars, runnervars, divvars, prvars, diffvars, tablevars>>

\* The worker awaiting enumeration e is cancelled (an exclusive worker
\* started): its queries leave the block or the queue with CancelledError;
\* the permits they held go to the waiters of the other enumerations.
gate_cancel(e) ==
    /\ enums[e].st = "running"
    /\ LET rest == SelectSeq(sem_waiters, LAMBDA w : w # e)
           freed == enums[e].holding
           handed == Min(freed, Len(rest))
           woken(d) == Cardinality({i \in 1..handed : rest[i] = d})
       IN
        /\ enums' = [d \in DOMAIN enums |->
                       IF d = e
                       THEN [enums[e] EXCEPT !.st = "cancelled", !.holding = 0]
                       ELSE [enums[d] EXCEPT !.holding = @ + woken(d)]]
        /\ sem_waiters' = SubSeq(rest, handed + 1, Len(rest))
        /\ sem_value' = sem_value + freed - handed
    /\ UNCHANGED <<appvars, parsevars, enumvars, runnervars, divvars, prvars, diffvars, tablevars>>

GateNext ==
    \/ \E e \in 1..MaxEnums, n \in ListingSizes : gate_get_worktrees(e, n)
    \/ \E e \in 1..MaxEnums : status_done(e)
    \/ \E e \in 1..MaxEnums : gate_cancel(e)

\* Every `git status` subprocess terminates, so a query holding a permit
\* eventually leaves the block.
SpecGate ==
    /\ Init
    /\ [][GateNext]_vars
    /\ WF_vars(\E e \in 1..MaxEnums : status_done(e))

\* ---------------------------------------------------------------- text
Space == " "
\* str.startswith
StartsWith(line, prefix) ==
    /\ Len(line) >= Len(prefix)
    /\ SubSeq(line, 1, Len(prefix)) = prefix

\* str.split(): the maximal runs of atoms other than Space
RECURSIVE SplitFrom(_, _, _, _)
SplitFrom(line, i, word, parts) ==
    IF i > Len(line)
    THEN (IF word = <<>> THEN parts ELSE Append(parts, word))
    ELSE IF line[i] = Space
    THEN SplitFrom(line, i + 1, <<>>, IF word = <<>> THEN parts ELSE Append(parts, word))
    ELSE SplitFrom(line, i + 1, Append(word, line[i]), parts)
Split(line) == SplitFrom(line, 1, <<>>, <<>>)

\* str.replace(old, ""), old a single atom
Replace(s, old) == SelectSeq(s, LAMBDA a : a # old)

\* int(): an optional sign and then decimal digits, ValueError otherwise
DigitValue == [c \in {"0", "1", "2", "3"} |-> CASE c = "0" -> 0 [] c = "1" -> 1
                                                [] c = "2" -> 2 [] c = "3" -> 3]
RECURSIVE Decimal(_, _)
Decimal(word, k) ==
    IF k = 0 THEN 0 ELSE 10 * Decimal(word, k - 1) + DigitValue[word[k]]
Int_(word) ==
    LET signed == word # <<>> /\ word[1] \in {"+", "-"}
        digits == IF signed THEN Tail(word) ELSE word
    IN IF digits = <<>> \/ \E k \in DOMAIN digits : digits[k] \notin DOMAIN DigitValue
       THEN [ok |-> FALSE, val |-> 0]
       ELSE [ok |-> TRUE,
             val |-> IF signed /\ word[1] = "-"
                     THEN 0 - Decimal(digits, Len(digits))
                     ELSE Decimal(digits, Len(digits))]

\* ------------------------------------------------------- status parsing
\* The index column read where the worktree column is meant.
StagedInc_second_column(xy) == xy[2] # "."

\* if xy[0] != ".": staged += 1
StagedInc(xy) == xy[1] # "."
\* if xy[1] != ".": modified += 1
ModifiedInc(xy) == xy[2] # "."

\* One turn of `for line in status_raw.splitlines()` on the counters c.
StatusLine(c, line) ==
    IF StartsWith(line, <<"#", Space, "branch.ab", Space>>)
    THEN LET parts == Split(line) IN
         IF Len(parts) >= 4
         THEN LET a == Int_(Replace(parts[3], "+"))
                  b == Int_(Replace(parts[4], "-"))
              IN IF a.ok /\ b.ok
                 THEN [kind |-> "ok", c |-> [c EXCEPT !.ahead = a.val, !.behind = b.val]]
                 ELSE [kind |-> "ValueError", c |-> c]
         ELSE [kind |-> "ok", c |-> c]
    ELSE IF StartsWith(line, <<"?">>)
    THEN [kind |-> "ok", c |-> [c EXCEPT !.untracked = @ + 1]]
    ELSE IF StartsWith(line, <<"1", Space>>) \/ StartsWith(line, <<"2", Space>>)
    THEN LET parts == Split(line) IN
         IF Len(parts) > 1 /\ Len(parts[2]) >= 2
         THEN [kind |-> "ok",
               c |-> [c EXCEPT !.staged = IF StagedInc(parts[2]) THEN @ + 1 ELSE @,
                               !.modified = IF ModifiedInc(parts[2]) THEN @ + 1 ELSE @]]
         ELSE [kind |-> "ok", c |-> c]
    ELSE [kind |-> "ok", c |-> c]

RECURSIVE StatusFrom(_, _, _)
StatusFrom(lines, i, c) ==
    IF i > Len(lines) THEN [kind |-> "ok", c |-> c]
    ELSE LET step == StatusLine(c, lines[i]) IN
         IF step.kind = "ok" THEN StatusFrom(lines, i + 1, step.c) ELSE step

\* get_wt_info(wt_data) with the status output it read: the WorktreeInfo it
\* returns, or the exception it raises.
get_wt_info(wt_data, lines) ==
    IF "path" \notin wt_data.has THEN [kind |-> "KeyError", rec |-> NoRecord]
    ELSE LET st == StatusFrom(lines, 1, NoCounts) IN
         IF st.kind # "ok" THEN [kind |-> st.kind, rec |-> NoRecord]
         ELSE [kind |-> "ok",
               rec |-> [path |-> wt_data.path,
                        branch |-> IF "branch" \in wt_data.has THEN wt_data.branch
                                   ELSE <<"(detached)">>,
                        is_main |-> wt_data.is_main,
                        dirty |-> (st.c.untracked + st.c.modified + st.c.staged > 0),
                        ahead |-> st.c.ahead,
                        behind |-> st.c.behind,
                        untracked |-> st.c.untracked,
                        modified |-> st.c.modified,
                        staged |-> st.c.staged]]

\* Lines `git status --porcelain=v2 --branch` prints, and malformed ones.
StatusLines ==
    { <<"#", Space, "branch.ab", Space, "+", "1", Space, "-", "2">>,
      <<"#", Space, "branch.ab", Space, "+", "x", Space, "-", "0">>,
      <<"#", Space, "branch.ab", Space, "+", "1">>,
      <<"#", Space, "branch.head", Space, "main">>,
      <<"?", Space, "f">>,
      <<"!", Space, "f">>,
      <<"1", Space, ".", "M", Space, "f">>,
      <<"1", Space, "M", ".", Space, "f">>,
      <<"2", Space, "R", "M", Space, "f">>,
      <<"1", Space, ".", ".", Space, "f">>,
      <<"1", Space, "M">>,
      <<"u", Space, "U", "U", Space, "f">> }
StatusTexts == UNION {[1..n -> StatusLines] : n \in 0..MaxStatusLines}
SampleWt == [has |-> {"path", "branch", "is_main"}, path |-> <<"/a">>,
             branch |-> <<"x">>, is_main |-> TRUE]

StatusInit ==
    /\ AppInit
    /\ GateInit
    /\ EnumIdle
    /\ RunnerIdle
    /\ DivIdle
    /\ PrIdle
    /\ DiffIdle
    /\ TableIdle
    /\ stage = "status"
    /\ raw_wts = <<>>
    /\ wts = <<>>
    /\ result = NoResult
    /\ status_raw \in StatusTexts
    /\ info = NoInfo

\* get_wt_info resumes from `await self.run_git([... "status" ...])`.
status_parsed ==
    /\ stage = "status"
    /\ stage' = "status_parsed"
    /\ info' = get_wt_info(SampleWt, status_raw)
    /\ UNCHANGED <<raw_wts, wts, result, status_raw>>
    /\ UNCHANGED <<appvars, gatevars, enumvars, runnervars, divvars, prvars, diffvars, tablevars>>

StatusNext == status_parsed

SpecStatus == StatusInit /\ [][StatusNext]_vars

\* ------------------------------------------------------ listing parsing
\* line.split() in place of line.split(" ", 1): the path ends at its first space.
SplitOnce_every_space(line) == Split(line)[2]

\* line.split(" ", 1)[1]: all that follows the first Space of the line
SplitOnce(line) ==
    LET i == CHOOSE k \in DOMAIN line :
                 line[k] = Space /\ \A j \in 1..(k - 1) : line[j] # Space
    IN SubSeq(line, i + 1, Len(line))

EmptyDict == [has |-> {}, path |-> <<>>, branch |-> <<>>, is_main |-> FALSE]

\* if current_wt: wts.append(current_wt)
Flush(acc, cur) == IF cur.has # {} THEN Append(acc, cur) ELSE acc

\* for line in raw_wts.splitlines(): ..., and the append after the loop
RECURSIVE ParseFrom(_, _, _, _)
ParseFrom(lines, i, acc, cur) ==
    IF i > Len(lines) THEN Flush(acc, cur)
    ELSE IF StartsWith(lines[i], <<"worktree", Space>>)
    THEN ParseFrom(lines, i + 1, Flush(acc, cur),
                   [EmptyDict EXCEPT !.has = {"path"}, !.path = SplitOnce(lines[i])])
    ELSE IF StartsWith(lines[i], <<"branch", Space>>)
    THEN ParseFrom(lines, i + 1, acc,
                   [cur EXCEPT !.has = @ \cup {"branch"},
                               !.branch = Replace(SplitOnce(lines[i]), "refs/heads/")])
    ELSE ParseFrom(lines, i + 1, acc, cur)

\* for i, wt_data in enumerate(wts): wt_data["is_main"] = i == 0
MarkMain(ds) ==
    [i \in DOMAIN ds |-> [ds[i] EXCEPT !.has = @ \cup {"is_main"}, !.is_main = (i = 1)]]

ParseListing(lines) == MarkMain(ParseFrom(lines, 1, <<>>, EmptyDict))

\* Lines `git worktree list --porcelain` prints, and others.
ListingLines ==
    { <<"worktree", Space, "/a">>,
      <<"worktree", Space, "/b">>,
      <<"worktree", Space, "/my", Space, "x">>,
      <<"worktree", Space, "/my", Space, "y">>,
      <<"worktree">>,
      <<"HEAD", Space, "abc">>,
      <<"branch", Space, "refs/heads/", "x">>,
      <<"detached">>,
      <<>> }
\* run_git returns stdout.strip(): no blank line first or last
Listings ==
    {l \in UNION {[1..n -> ListingLines] : n \in 0..MaxListingLines} :
        l # <<>> => (l[1] # <<>> /\ l[Len(l)] # <<>>)}
\* status outputs of the worktrees listed
StatusSamples ==
    { <<>>,
      << <<"?", Space, "f">>, <<"1", Space, "M", "M", Space, "g">> >>,
      << <<"#", Space, "branch.ab", Space, "+", "x", Space, "-", "0">> >> }

ListingInit ==
    /\ AppInit
    /\ GateInit
    /\ EnumIdle
    /\ RunnerIdle
    /\ DivIdle
    /\ PrIdle
    /\ DiffIdle
    /\ TableIdle
    /\ stage = "listed"
    /\ raw_wts \in Listings
    /\ wts = <<>>
    /\ result = NoResult
    /\ status_raw = <<>>
    /\ info = NoInfo

\* get_worktrees resumes from the listing command and runs to its next await.
parse_listing ==
    /\ stage = "listed"
    /\ stage' = "parsed"
    /\ wts' = ParseListing(raw_wts)
    /\ UNCHANGED <<raw_wts, result, status_raw, info>>
    /\ UNCHANGED <<appvars, gatevars, enumvars, runnervars, divvars, prvars, diffvars, tablevars>>

\* return await asyncio.gather(*(get_wt_info(wt) for wt in wts)): the records
\* in listing order, or the exception of a query that raised.
gather(outputs) ==
    /\ stage = "parsed"
    /\ stage' = "returned"
    /\ LET infos == [i \in DOMAIN wts |-> get_wt_info(wts[i], outputs[i])]
           raised == {infos[i].kind : i \in DOMAIN wts} \ {"ok"}
       IN IF raised = {}
          THEN result' = [kind |-> "list", recs |-> [i \in DOMAIN wts |-> infos[i].rec]]
          ELSE \E k \in raised : result' = [kind |-> k, recs |-> <<>>]
    /\ UNCHANGED <<raw_wts, wts, status_raw, info>>
    /\ UNCHANGED <<appvars, gatevars, enumvars, runnervars, divvars, prvars, diffvars, tablevars>>

ListingNext ==
    \/ parse_listing
    \/ \E outputs \in [DOMAIN wts -> StatusSamples] : gather(outputs)

SpecListing == ListingInit /\ [][ListingNext]_vars

\* ------------------------------------------- the enumeration, step by step
\* str.split("|"): the fields between the bars, empty ones included
RECURSIVE SplitBarFrom(_, _, _, _)
SplitBarFrom(line, i, field, parts) ==
    IF i > Len(line) THEN Append(parts, field)
    ELSE IF line[i] = "|" THEN SplitBarFrom(line, i + 1, <<>>, Append(parts, field))
    ELSE SplitBarFrom(line, i + 1, Append(field, line[i]), parts)
SplitBar(line) == SplitBarFrom(line, 1, <<>>, <<>>)

\* One turn of `for line in branch_raw.splitlines()` on the dict bi.
BranchLine(bi, line) ==
    LET parts == SplitBar(line) IN
    IF (\E k \in DOMAIN line : line[k] = "|") /\ Len(parts) = 3
    THEN IF Int_(parts[3]).ok
         THEN [kind |-> "ok",
               bi |-> [b \in DOMAIN bi \cup {parts[1]} |->
                         IF b = parts[1]
                         THEN [last_active |-> parts[2],
                               last_active_ts |-> Int_(parts[3]).val]
                         ELSE bi[b]]]
         ELSE [kind |-> "ValueError", bi |-> bi]
    ELSE [kind |-> "ok", bi |-> bi]

RECURSIVE BranchInfoFrom(_, _, _)
BranchInfoFrom(lines, i, bi) ==
    IF i > Len(lines) THEN [kind |-> "ok", bi |-> bi]
    ELSE LET step == BranchLine(bi, lines[i]) IN
         IF step.kind = "ok" THEN BranchInfoFrom(lines, i + 1, step.bi) ELSE step

\* last_active, last_active_ts = branch_info.get(branch, ("", 0))
LastActive(bi, branch) ==
    IF branch \in DOMAIN bi THEN bi[branch]
    ELSE [last_active |-> <<>>, last_active_ts |-> 0]

\* GitService.get_worktrees has `if not raw_wts: return []`;
\* GitWtStatus.get_worktrees goes on to the branch query.
ReturnsOnEmptyListing(which) == which = "GitService"

\* Results handed out in the order the queries completed.
GatherSlot_completion(order, i) == order[i]

\* asyncio.gather: the i-th result is that of the i-th awaitable
GatherSlot(order, i) == i

\* Worktrees by path: the branch checked out and what `git status` prints there.
EnumPaths == {"/a", "/b", "/d"}
BranchAt == [p \in EnumPaths |-> CASE p = "/a" -> "x" [] p = "/b" -> "y" [] p = "/d" -> "z"]
DirStatus ==
    [p \in EnumPaths |->
        CASE p = "/a" -> << <<"#", Space, "branch.ab", Space, "+", "1", Space, "-", "2">> >>
          [] p = "/b" -> << <<"#", Space, "branch.ab", Space, "+", "0", Space, "-", "0">>,
                            <<"?", Space, "new.txt">>,
                            <<"1", Space, ".", "M", Space, "file.txt">> >>
          [] p = "/d" -> << <<"#", Space, "branch.ab", Space, "+", "2", Space, "-", "1">>,
                            <<"1", Space, "A", ".", Space, "staged.txt">> >>]
BrokenStatus == << <<"#", Space, "branch.ab", Space, "+", "x", Space, "-", "0">> >>

RECURSIVE ListingOf(_)
ListingOf(ps) ==
    IF ps = <<>> THEN <<>>
    ELSE << <<"worktree", Space, Head(ps)>>,
            <<"branch", Space, "refs/heads/", BranchAt[Head(ps)]>> >> \o ListingOf(Tail(ps))
EnumListings ==
    {ListingOf(ps) : ps \in UNION {[1..n -> EnumPaths] : n \in 0..MaxEnumWorktrees}}

BranchLines ==
    { <<"x", "|", "2 days ago", "|", "1", "2">>,
      <<"y", "|", "1 day ago", "|", "3">>,
      <<"z", "|", "ago", "|", "soon">>,
      <<"w", "|", "v", "|", "ago", "|", "3">>,
      <<"junk">> }
BranchTexts == UNION {[1..n -> BranchLines] : n \in 0..MaxBranchLines}
GoodBranchText == << <<"x", "|", "2 days ago", "|", "1", "2">>,
                     <<"y", "|", "1 day ago", "|", "3">> >>

EnumInit ==
    /\ AppInit
    /\ GateInit
    /\ RunnerIdle
    /\ DivIdle
    /\ PrIdle
    /\ DiffIdle
    /\ TableIdle
    /\ stage = "listed"
    /\ \/ raw_wts \in EnumListings /\ branch_raw = GoodBranchText
       \/ raw_wts = ListingOf(<<"/a", "/b">>) /\ branch_raw \in BranchTexts
    /\ wts = <<>>
    /\ result = NoResult
    /\ status_raw = <<>>
    /\ info = NoInfo
    /\ impl \in {"GitService", "GitWtStatus"}
    /\ branch_info = <<>>
    /\ issued = << <<"worktree_list">> >>
    /\ query_infos = <<>>
    /\ done_order = <<>>
    /\ broken \in {{}, {"/d"}}

\* get_worktrees resumes from the listing command.
listing_returned ==
    /\ stage = "listed"
    /\ IF raw_wts = <<>> /\ ReturnsOnEmptyListing(impl)
       THEN /\ stage' = "returned"
            /\ result' = [kind |-> "list", recs |-> <<>>]
            /\ UNCHANGED <<wts, issued>>
       ELSE /\ stage' = "branches"
            /\ wts' = ParseListing(raw_wts)
            /\ issued' = Append(issued, <<"for_each_ref">>)
            /\ UNCHANGED result
    /\ UNCHANGED <<raw_wts, status_raw, info, impl, branch_raw, branch_info, query_infos,
                   done_order, broken>>
    /\ UNCHANGED <<appvars, gatevars, runnervars, divvars, prvars, diffvars, tablevars>>

\* get_worktrees resumes from the branch query, fills branch_info and starts
\* one get_wt_info per record under asyncio.gather.
branch_returned ==
    /\ stage = "branches"
    /\ LET parsed == BranchInfoFrom(branch_raw, 1, <<>>) IN
       IF parsed.kind # "ok"
       THEN /\ stage' = "returned"
            /\ result' = [kind |-> parsed.kind, recs |-> <<>>]
            /\ UNCHANGED <<branch_info, issued, query_infos>>
       ELSE /\ branch_info' = parsed.bi
            /\ query_infos' = [i \in DOMAIN wts |-> [kind |-> "pending", rec |-> NoRecord]]
            /\ issued' = issued \o [i \in DOMAIN wts |-> <<"status", wts[i].path>>]
            /\ IF wts = <<>>
               THEN /\ stage' = "returned"
                    /\ result' = [kind |-> "list", recs |-> <<>>]
               ELSE /\ stage' = "gathering"
                    /\ UNCHANGED result
    /\ UNCHANGED <<raw_wts, wts, status_raw, info, impl, branch_raw, done_order, broken>>
    /\ UNCHANGED <<appvars, gatevars, runnervars, divvars, prvars, diffvars, tablevars>>

\* What `git status` prints in the directory of record d.
StatusIn(d) ==
    IF d.path[1] \in broken THEN BrokenStatus ELSE DirStatus[d.path[1]]

\* The status query of record i completes; a query that raises makes gather
\* raise at once.
query_done(i) ==
    /\ stage = "gathering"
    /\ i \in DOMAIN query_infos
    /\ query_infos[i].kind = "pending"
    /\ LET got == get_wt_info(wts[i], StatusIn(wts[i]))
           full == [kind |-> got.kind,
                    rec |-> [k \in DOMAIN got.rec \cup {"last_active", "last_active_ts"} |->
                               IF k \in DOMAIN got.rec THEN got.rec[k]
                               ELSE LastActive(branch_info, got.rec.branch)[k]]]
       IN /\ query_infos' = [query_infos EXCEPT ![i] = full]
          /\ done_order' = Append(done_order, i)
          /\ IF got.kind # "ok"
             THEN /\ stage' = "returned"
                  /\ result' = [kind |-> got.kind, recs |-> <<>>]
             ELSE UNCHANGED <<stage, result>>
    /\ UNCHANGED <<raw_wts, wts, status_raw, info, impl, branch_raw, branch_info,
                   issued, broken>>
    /\ UNCHANGED <<appvars, gatevars, runnervars, divvars, prvars, diffvars, tablevars>>

\* All queries returned: gather resolves to the list of their results.
gather_returned ==
    /\ stage = "gathering"
    /\ \A i \in DOMAIN query_infos : query_infos[i].kind = "ok"
    /\ stage' = "returned"
    /\ result' = [kind |-> "list",
                  recs |-> [i \in DOMAIN query_infos |-> query_infos[GatherSlot(done_order, i)].rec]]
    /\ UNCHANGED <<raw_wts, wts, status_raw, info, impl, branch_raw, branch_info,
                   issued, query_infos, done_order, broken>>
    /\ UNCHANGED <<appvars, gatevars, runnervars, divvars, prvars, diffvars, tablevars>>

EnumNext ==
    \/ listing_returned
    \/ branch_returned
    \/ \E i \in 1..MaxEnumWorktrees : query_done(i)
    \/ gather_returned

SpecEnum == EnumInit /\ [][EnumNext]_vars

\* ------------------------------------------------------ process runner
\* str.strip(): whitespace atoms dropped at both ends
RECURSIVE Strip(_)
Strip(s) ==
    IF s = <<>> THEN s
    ELSE IF Head(s) \in {Space, "\n"} THEN Strip(Tail(s))
    ELSE IF s[Len(s)] \in {Space, "\n"} THEN Strip(SubSeq(s, 1, Len(s) - 1))
    ELSE s

\* " ".join(args)
RECURSIVE Joined(_)
Joined(args) ==
    IF args = <<>> THEN <<>>
    ELSE IF Len(args) = 1 THEN args[1]
    ELSE args[1] \o <<Space>> \o Joined(Tail(args))

\* The key built from the command alone.
Key_without_cwd(kind, cwd, args) == <<kind, ":">> \o Joined(args)

\* f"git_fail:{cwd}:{command}", f"cmd_missing:{args[0]}", f"cmd_error:{cwd}:{command}"
Key(kind, cwd, args) ==
    IF kind = "cmd_missing" THEN <<kind, ":">> \o args[1]
    ELSE <<kind, ":">> \o cwd \o <<":">> \o Joined(args)

\* A notifier that never remembers a key.
Notify_never_dedup(how, key, seen) == [visible |-> TRUE, seen |-> seen]
\* A notifier that deduplicates every notification.
Notify_always_dedup(how, key, seen) == [visible |-> key \notin seen, seen |-> seen \cup {key}]

\* self._notify_once(key, message) or self.notify(message): whether the user
\* sees the message, and self._notified_errors afterwards
Notify(how, key, seen) ==
    IF how = "once"
    THEN [visible |-> key \notin seen, seen |-> seen \cup {key}]
    ELSE [visible |-> TRUE, seen |-> seen]

\* An except clause that matches the named class only.
Handles_exact(cls, exc) == cls = exc

\* `except cls` catches exc: both sampled exceptions derive from Exception
Handles(cls, exc) == cls = "Exception" \/ cls = exc

\* run_git up to its return: the value, and the failure kind it notifies
\* ("ok": none; "raised": the exception leaves run_git).
run_git(outcome, ok_returncodes, strip) ==
    IF outcome.exc = "none"
    THEN IF outcome.code \notin ok_returncodes
         THEN [kind |-> "git_fail", ret |-> <<>>]
         ELSE [kind |-> "ok",
               ret |-> IF strip THEN Strip(outcome.stdout) ELSE outcome.stdout]
    ELSE IF Handles("FileNotFoundError", outcome.exc)
    THEN [kind |-> "cmd_missing", ret |-> <<>>]
    ELSE IF Handles("Exception", outcome.exc)
    THEN [kind |-> "cmd_error", ret |-> <<>>]
    ELSE [kind |-> "raised", ret |-> <<>>]

\* run_command_checked up to its return
run_command_checked(outcome) ==
    IF outcome.exc # "none" THEN [kind |-> "checked_error", ret |-> FALSE]
    ELSE IF outcome.code = 0 THEN [kind |-> "ok", ret |-> TRUE]
    ELSE [kind |-> "checked_fail", ret |-> FALSE]

\* Directories and argument lists of the calls, and how the process can end.
Invocations ==
    { [cwd |-> <<"/a">>, args |-> << <<"git">>, <<"status">> >>],
      [cwd |-> <<"/b">>, args |-> << <<"git">>, <<"status">> >>],
      [cwd |-> <<"/a">>, args |-> << <<"git", ":", "log">> >>],
      [cwd |-> <<"/a", ":", "git">>, args |-> << <<"log">> >>] }
Outcomes ==
    { [exc |-> "none", code |-> 0, stdout |-> <<Space, "out", "\n">>],
      [exc |-> "none", code |-> 1, stdout |-> <<"out">>],
      [exc |-> "FileNotFoundError", code |-> 0, stdout |-> <<>>],
      [exc |-> "PermissionError", code |-> 0, stdout |-> <<>>] }
\* One `await self.run_git(args, cwd=..., ok_returncodes=..., strip=...)`.
run_git_call(inv, outcome, ok_returncodes, strip) ==
    /\ Len(calls) < MaxCalls
    /\ LET r == run_git(outcome, ok_returncodes, strip)
           key == Key(r.kind, inv.cwd, inv.args)
           n == IF r.kind \in {"ok", "raised"}
                THEN [visible |-> FALSE, seen |-> notified_errors]
                ELSE Notify("once", key, notified_errors)
       IN /\ notified_errors' = n.seen
          /\ calls' = Append(calls, [fn |-> "run_git", cwd |-> inv.cwd, args |-> inv.args,
                                     kind |-> r.kind, key |-> key, visible |-> n.visible])
          /\ call' = [fn |-> "run_git", outcome |-> outcome, ok |-> ok_returncodes,
                      strip |-> strip, ret |-> r.ret, kind |-> r.kind,
                      notified |-> IF r.kind \in {"ok", "raised"} THEN 0 ELSE 1]
    /\ UNCHANGED <<appvars, gatevars, parsevars, enumvars, divvars, prvars, diffvars, tablevars>>

\* One `await self._run_command_checked(args, cwd, error_prefix)`.
run_checked_call(inv, outcome) ==
    /\ Len(calls) < MaxCalls
    /\ LET r == run_command_checked(outcome)
           key == <<"checked", ":">> \o inv.cwd \o <<":">> \o Joined(inv.args)
           n == IF r.kind = "ok" THEN [visible |-> FALSE, seen |-> notified_errors]
                ELSE Notify("notify", key, notified_errors)
       IN /\ notified_errors' = n.seen
          /\ calls' = Append(calls, [fn |-> "run_checked", cwd |-> inv.cwd,
                                     args |-> inv.args, kind |-> r.kind, key |-> key,
                                     visible |-> n.visible])
          /\ call' = [fn |-> "run_checked", outcome |-> outcome, ret |-> r.ret,
                      kind |-> r.kind, notified |-> IF r.kind = "ok" THEN 0 ELSE 1]
    /\ UNCHANGED <<appvars, gatevars, parsevars, enumvars, divvars, prvars, diffvars, tablevars>>

RunnerNext ==
    \/ \E inv \in Invocations, outcome \in Outcomes, ok \in {{0}, {0, 1}}, strip \in BOOLEAN :
        run_git_call(inv, outcome, ok, strip)
    \/ \E inv \in Invocations, outcome \in Outcomes : run_checked_call(inv, outcome)

SpecRunner == Init /\ [][RunnerNext]_vars

\* ------------------------------------- divergence and the main branch name
\* cache_key = f"{path}:{wt.branch}"
CacheKey(wt) == <<wt.path, ":", wt.branch>>

\* out.split("/")[-1] if out else "main"
MainBranchOf(out) ==
    IF out = <<>> THEN "main"
    ELSE IF out[Len(out)] = "/" THEN ""
    ELSE out[Len(out)]

\* m_behind, m_ahead = res.split(); f"Main: ↑{m_ahead} ↓{m_behind}", "" when
\* res is empty or does not unpack
DivergenceOf(res) ==
    IF res # <<>> /\ Len(Split(res)) = 2
    THEN <<"Main", Split(res)[2], Split(res)[1]>>
    ELSE <<>>

\* get_div without `if wt.is_main: return ""`.
SkipsRevList_never(wt) == FALSE

\* if wt.is_main: return ""
SkipsRevList(wt) == wt.is_main

\* get_div returns value for wt; after the gather, `if divergence:
\* wt.divergence = divergence`.
DivReturn(wt, value) ==
    /\ view' = [view EXCEPT !.st = "done", !.issued = 2]
    /\ last_div' = [path |-> wt.path, value |-> value]
    /\ wt_divergence' = IF value # <<>> THEN [wt_divergence EXCEPT ![wt.path] = value]
                        ELSE wt_divergence

\* get_div from the point where main_branch is known.
DivAfterMainBranch(wt) ==
    IF SkipsRevList(wt)
    THEN DivReturn(wt, <<>>) /\ UNCHANGED revlists
    ELSE /\ revlists[wt.path] < MaxQueries
         /\ revlists' = [revlists EXCEPT ![wt.path] = @ + 1]
         /\ view' = [view EXCEPT !.st = "rev_list",
                                 !.issued = IF view.st = "sleep" THEN 3 ELSE @ + 1]
         /\ UNCHANGED <<last_div, wt_divergence>>

\* update_details_view with the status and log queries started before the
\* delay.
Requested_queries_first(wt, was) ==
    [st |-> "sleep", path |-> wt.path, issued |-> 2, dropped |-> was.st = "sleep"]

\* A new update_details_view worker: await asyncio.sleep(0.1) comes first, no
\* query has been started; dropped: the worker it cancelled was still in its
\* delay.
Requested(wt, was) ==
    [st |-> "sleep", path |-> wt.path, issued |-> 0, dropped |-> was.st = "sleep"]

\* if cache_key in self._divergence_cache
CacheHit_never(wt) == FALSE

CacheHit(wt) == CacheKey(wt) \in DOMAIN divergence_cache

\* update_details_view starts for the row of wt (row highlighted, or the end
\* of a refresh or a PR fetch): any view and any mutation worker in flight
\* is cancelled, and the new worker waits out its delay.
view_started(wt) ==
    /\ absorbing' = FALSE
    /\ view' = Requested(wt, view)
    /\ UNCHANGED <<main_branch, divergence_cache, wt_divergence, lookups, revlists,
                   returned, last_div>>
    /\ UNCHANGED appframe
    /\ UNCHANGED <<gatevars, parsevars, enumvars, runnervars, prvars, diffvars, tablevars>>

\* The delay is over: the status and the log query are started and get_div
\* runs to its first await or to its return.
view_woke ==
    /\ view.st = "sleep"
    /\ LET wt == CHOOSE t \in DivTrees : t.path = view.path IN
       IF CacheHit(wt)
       THEN /\ DivReturn(wt, divergence_cache[CacheKey(wt)])
            /\ UNCHANGED <<main_branch, lookups, revlists, returned>>
       ELSE IF wt_divergence[wt.path] # <<>>
       THEN /\ DivReturn(wt, wt_divergence[wt.path])
            /\ UNCHANGED <<main_branch, lookups, revlists, returned>>
       ELSE IF main_branch # ""
       THEN /\ returned' = returned \cup {main_branch}
            /\ DivAfterMainBranch(wt)
            /\ UNCHANGED <<main_branch, lookups>>
       ELSE /\ lookups < MaxQueries
            /\ lookups' = lookups + 1
            /\ view' = [view EXCEPT !.st = "main_branch", !.issued = 3]
            /\ UNCHANGED <<main_branch, revlists, returned, last_div, wt_divergence>>
    /\ UNCHANGED <<divergence_cache, absorbing>>
    /\ UNCHANGED appframe
    /\ UNCHANGED <<gatevars, parsevars, enumvars, runnervars, prvars, diffvars, tablevars>>

\* The view's get_main_branch resumes from the symbolic-ref lookup.
view_lookup_done(out) ==
    /\ view.st = "main_branch"
    /\ main_branch' = MainBranchOf(out)
    /\ returned' = returned \cup {MainBranchOf(out)}
    /\ DivAfterMainBranch(CHOOSE t \in DivTrees : t.path = view.path)
    /\ UNCHANGED <<divergence_cache, absorbing, lookups>>
    /\ UNCHANGED appframe
    /\ UNCHANGED <<gatevars, parsevars, enumvars, runnervars, prvars, diffvars, tablevars>>

\* get_div resumes from `git rev-list --left-right --count`.
view_revlist_done(res) ==
    /\ view.st = "rev_list"
    /\ LET wt == CHOOSE t \in DivTrees : t.path = view.path IN
        /\ DivReturn(wt, DivergenceOf(res))
        /\ divergence_cache' =
             IF DivergenceOf(res) # <<>>
             THEN [k \in DOMAIN divergence_cache \cup {CacheKey(wt)} |->
                     IF k = CacheKey(wt) THEN DivergenceOf(res) ELSE divergence_cache[k]]
             ELSE divergence_cache
    /\ UNCHANGED <<main_branch, absorbing, lookups, revlists, returned>>
    /\ UNCHANGED appframe
    /\ UNCHANGED <<gatevars, parsevars, enumvars, runnervars, prvars, diffvars, tablevars>>

\* do_absorb reaches `main_branch = await self.get_main_branch()`.
absorb_started ==
    /\ ~absorbing
    /\ IF main_branch # ""
       THEN /\ returned' = returned \cup {main_branch}
            /\ UNCHANGED <<absorbing, lookups>>
       ELSE /\ lookups < MaxQueries
            /\ lookups' = lookups + 1
            /\ absorbing' = TRUE
            /\ UNCHANGED returned
    /\ UNCHANGED <<main_branch, divergence_cache, wt_divergence, view, revlists, last_div>>
    /\ UNCHANGED appframe
    /\ UNCHANGED <<gatevars, parsevars, enumvars, runnervars, prvars, diffvars, tablevars>>

\* do_absorb's get_main_branch resumes from the symbolic-ref lookup.
absorb_lookup_done(out) ==
    /\ absorbing
    /\ absorbing' = FALSE
    /\ main_branch' = MainBranchOf(out)
    /\ returned' = returned \cup {MainBranchOf(out)}
    /\ UNCHANGED <<divergence_cache, wt_divergence, view, lookups, revlists, last_div>>
    /\ UNCHANGED appframe
    /\ UNCHANGED <<gatevars, parsevars, enumvars, runnervars, prvars, diffvars, tablevars>>

\* A create, delete or absorb went through and refresh_data replaced the
\* records: the views so far no longer count as calls without a mutation
\* in between.
mutated ==
    /\ view.st \in {"done", "none"}
    /\ revlists' = [p \in DOMAIN revlists |-> 0]
    /\ wt_divergence' = [p \in DOMAIN wt_divergence |-> <<>>]
    /\ view' = NoView
    /\ UNCHANGED <<main_branch, divergence_cache, absorbing, lookups, returned, last_div>>
    /\ UNCHANGED appframe
    /\ UNCHANGED <<gatevars, parsevars, enumvars, runnervars, prvars, diffvars, tablevars>>

DivNext ==
    \/ \E wt \in DivTrees : view_started(wt)
    \/ view_woke
    \/ \E out \in {<<>>, <<"origin", "/", "trunk">>} : view_lookup_done(out)
    \/ \E res \in {<<>>, <<"2", Space, "1">>, <<"0", Space, "4">>, <<"fatal">>} :
          view_revlist_done(res)
    \/ absorb_started
    \/ \E out \in {<<>>, <<"origin", "/", "trunk">>} : absorb_lookup_done(out)
    \/ mutated

SpecDiv == Init /\ [][DivNext]_vars

\* ------------------------------------------------------------ pull requests
\* for p in prs: pr_map[p["headRefName"]] = PRInfo(p["number"], p["state"],
\* p["title"], p["url"]), from item i on: a
\* later entry replaces an earlier one of the same head, an item without one
\* of the keys raises KeyError.
RECURSIVE PrMapFrom(_, _, _)
PrMapFrom(items, i, pr_map) ==
    IF i > Len(items) THEN [kind |-> "map", map |-> pr_map]
    ELSE IF ~({"headRefName", "state", "number", "title", "url"} \subseteq DOMAIN items[i])
    THEN [kind |-> "KeyError", map |-> <<>>]
    ELSE PrMapFrom(items, i + 1,
            [h \in DOMAIN pr_map \cup {items[i].headRefName} |->
                IF h = items[i].headRefName
                THEN [number |-> items[i].number, state |-> items[i].state,
                      title |-> items[i].title, url |-> items[i].url]
                ELSE pr_map[h]])

\* prs = json.loads(pr_raw) and the loop over prs: text that is not JSON
\* raises JSONDecodeError, which is reported once and gives no data; a
\* document that is not a list of objects (an object: the loop runs over its
\* keys; a scalar: not iterable) raises TypeError.
Parsed(pr_raw) ==
    IF pr_raw.text # "json" THEN [kind |-> "none", map |-> <<>>]
    ELSE IF pr_raw.doc.type = "list" THEN PrMapFrom(pr_raw.doc.items, 1, <<>>)
    ELSE IF pr_raw.doc.type = "object" /\ pr_raw.doc.items = <<>>
    THEN [kind |-> "map", map |-> <<>>]
    ELSE [kind |-> "TypeError", map |-> <<>>]

\* fetch_pr_map where empty output counts as a parsed empty list.
fetch_pr_map_empty_is_list(pr_raw) ==
    IF pr_raw.text = "" THEN [kind |-> "map", map |-> <<>>] ELSE Parsed(pr_raw)

\* if pr_raw == "": return None (app.py: return False)
fetch_pr_map(pr_raw) ==
    IF pr_raw.text = "" THEN [kind |-> "none", map |-> <<>>] ELSE Parsed(pr_raw)

\* Attaching the first fetched record to every worktree.
Attach_any(wt, pr_map) ==
    IF DOMAIN pr_map # {}
    THEN [wt EXCEPT !.pr = <<pr_map[CHOOSE h \in DOMAIN pr_map : TRUE]>>]
    ELSE wt

\* if wt.branch in pr_map: wt.pr = pr_map[wt.branch]
Attach(wt, pr_map) ==
    IF wt.branch \in DOMAIN pr_map THEN [wt EXCEPT !.pr = <<pr_map[wt.branch]>>] ELSE wt

Entry(head, n) ==
    [headRefName |-> head, state |-> "OPEN", number |-> n, title |-> "t", url |-> "u"]
JsonList(items) == [text |-> "json", doc |-> [type |-> "list", items |-> items]]
EmptyOutput == [text |-> "", doc |-> NoDoc]
\* what `gh pr list --json ...` can hand back through run_git
PrOutputs ==
    { EmptyOutput,
      [text |-> "<html>", doc |-> NoDoc],
      JsonList(<<>>),
      JsonList(<<Entry("feat", 1)>>),
      JsonList(<<Entry("feature", 2), Entry("Feat", 3)>>),
      JsonList(<<Entry("feat", 1), [headRefName |-> "main", number |-> 4]>>),
      [text |-> "json", doc |-> [type |-> "object", items |-> <<"message">>]],
      [text |-> "json", doc |-> [type |-> "scalar", items |-> <<>>]] }

\* action_fetch_prs: the notice when the flag is set, else the exclusive
\* worker fetch_pr_data_async starts (cancelling a fetch or a refresh in
\* flight) and fetch_pr_data issues the listing query.
pr_fetch_requested ==
    /\ IF pr_data_loaded
       THEN /\ pr_noticed' = TRUE
            /\ UNCHANGED <<pr_fetch, pr_refresh, pr_queries>>
       ELSE /\ pr_queries < MaxQueries
            /\ pr_queries' = pr_queries + 1
            /\ pr_fetch' = TRUE
            /\ pr_refresh' = FALSE
            /\ UNCHANGED pr_noticed
    /\ UNCHANGED <<pr_data_loaded, pr_records, pr_last, notified_errors, calls, call>>
    /\ UNCHANGED appframe_pr
    /\ UNCHANGED <<gatevars, parsevars, enumvars, divvars, diffvars, tablevars>>

\* fetch_pr_data resumes from run_git with pr_raw and runs to its end.
pr_fetch_returned(pr_raw) ==
    /\ pr_fetch
    /\ pr_fetch' = FALSE
    /\ LET res == fetch_pr_map(pr_raw) IN
        /\ pr_last' = [raw |-> pr_raw, outcome |-> res.kind]
        /\ notified_errors' =
             IF pr_raw.text \notin {"", "json"}
             THEN notified_errors \cup {<<"pr_json_decode">>}
             ELSE notified_errors
        /\ IF res.kind = "map"
           THEN /\ pr_records' = [i \in DOMAIN pr_records |-> Attach(pr_records[i], res.map)]
                /\ pr_data_loaded' = TRUE
                /\ UNCHANGED pr_queries
           ELSE /\ pr_queries' = 0
                /\ UNCHANGED <<pr_records, pr_data_loaded>>
    /\ UNCHANGED <<pr_refresh, pr_noticed, calls, call>>
    /\ UNCHANGED appframe_pr
    /\ UNCHANGED <<gatevars, parsevars, enumvars, divvars, diffvars, tablevars>>

\* refresh_data starting without cancelling the fetch in flight.
pr_refresh_started_beside_fetch ==
    /\ pr_data_loaded' = FALSE
    /\ pr_refresh' = TRUE
    /\ pr_queries' = 0
    /\ pr_noticed' = FALSE
    /\ UNCHANGED <<pr_fetch, pr_records, pr_last, notified_errors, calls, call>>
    /\ UNCHANGED appframe_pr
    /\ UNCHANGED <<gatevars, parsevars, enumvars, divvars, diffvars, tablevars>>

\* refresh_data starts: the flag is cleared, a fetch in flight is cancelled.
pr_refresh_started ==
    /\ pr_data_loaded' = FALSE
    /\ pr_fetch' = FALSE
    /\ pr_refresh' = TRUE
    /\ pr_queries' = 0
    /\ pr_noticed' = FALSE
    /\ UNCHANGED <<pr_records, pr_last, notified_errors, calls, call>>
    /\ UNCHANGED appframe_pr
    /\ UNCHANGED <<gatevars, parsevars, enumvars, divvars, diffvars, tablevars>>

\* refresh_data resumes from get_worktrees and installs the new records.
pr_refresh_returned ==
    /\ pr_refresh
    /\ pr_refresh' = FALSE
    /\ pr_records' = FreshRecords
    /\ UNCHANGED <<pr_data_loaded, pr_fetch, pr_queries, pr_noticed, pr_last,
                   notified_errors, calls, call>>
    /\ UNCHANGED appframe_pr
    /\ UNCHANGED <<gatevars, parsevars, enumvars, divvars, diffvars, tablevars>>

PrNext ==
    \/ pr_fetch_requested
    \/ \E pr_raw \in PrOutputs : pr_fetch_returned(pr_raw)
    \/ pr_refresh_started
    \/ pr_refresh_returned

SpecPr == Init /\ [][PrNext]_vars

\* ------------------------------------------------------------------- diffs
\* A text is a sequence of pieces, each a run of characters of a known
\* length; what a command printed is a content: its length, the number of
\* newlines it ends with, and for `git ls-files` the number of names listed.
Piece(tag, len) == [tag |-> tag, len |-> len, arg |-> <<>>]
Content(tag, len, nl) == [tag |-> tag, len |-> len, nl |-> nl, files |-> 0]
NoContent == Content("", 0, 0)

RECURSIVE TextLen(_)
TextLen(text) == IF text = <<>> THEN 0 ELSE text[1].len + TextLen(Tail(text))

\* text[:n]
RECURSIVE Take(_, _)
Take(text, n) ==
    IF n = 0 \/ text = <<>> THEN <<>>
    ELSE IF text[1].len <= n THEN <<text[1]>> \o Take(Tail(text), n - text[1].len)
    ELSE << [text[1] EXCEPT !.len = n] >>

\* "\n\n".join(texts)
RECURSIVE JoinText(_)
JoinText(texts) ==
    IF texts = <<>> THEN <<>>
    ELSE IF Len(texts) = 1 THEN texts[1]
    ELSE texts[1] \o <<Piece("\n\n", 2)>> \o JoinText(Tail(texts))

\* the truncated text without the marker
Truncate_without_marker(diff_text) ==
    IF TextLen(diff_text) > max_chars THEN Take(diff_text, max_chars) ELSE diff_text

\* no truncation at all
Truncate_never(diff_text) == diff_text

\* if len(diff_text) > max_chars: diff_text = diff_text[:max_chars] + "\n\n# [truncated]"
Truncate(diff_text) ==
    IF TextLen(diff_text) > max_chars
    THEN Take(diff_text, max_chars) \o <<Piece("\n\n# [truncated]", 15)>>
    ELSE diff_text

\* The patches of the untracked section for n listed names, the query of
\* file number failing printing nothing: the note when n exceeds the cap,
\* then the non-empty results for the first max_untracked_diffs names.
PatchesOf(last, failing) ==
    SelectSeq([i \in 1..last |-> IF i = failing THEN <<>> ELSE <<Piece("patch", 19)>>],
              LAMBDA p : p # <<>>)

\* untracked_patches with a diff for every listed name.
untracked_patches_uncapped(n, failing) ==
    (IF n > max_untracked_diffs
     THEN << << [tag |-> "note", len |-> 52, arg |-> <<max_untracked_diffs, n>>] >> >>
     ELSE <<>>)
    \o PatchesOf(n, failing)

untracked_patches(n, failing) ==
    (IF n > max_untracked_diffs
     THEN << << [tag |-> "note", len |-> 52, arg |-> <<max_untracked_diffs, n>>] >> >>
     ELSE <<>>)
    \o PatchesOf(Min(n, max_untracked_diffs), failing)

\* The sections with the unstaged one first.
Parts_unstaged_first(staged, unstaged, patches) ==
    (IF unstaged.len > unstaged.nl
     THEN << <<Piece("# Unstaged\n", 11), Piece(unstaged.tag, unstaged.len - unstaged.nl)>> >>
     ELSE <<>>)
    \o (IF staged.len > staged.nl
        THEN << <<Piece("# Staged\n", 9), Piece(staged.tag, staged.len - staged.nl)>> >>
        ELSE <<>>)
    \o (IF patches # <<>> THEN << <<Piece("# Untracked\n", 12)>> \o JoinText(patches) >>
        ELSE <<>>)

\* parts: "# Staged\n" + staged.strip("\n") if staged.strip(), then Unstaged
\* alike, then "# Untracked\n" + "\n\n".join(...) if untracked_patches
Parts(staged, unstaged, patches) ==
    (IF staged.len > staged.nl
     THEN << <<Piece("# Staged\n", 9), Piece(staged.tag, staged.len - staged.nl)>> >>
     ELSE <<>>)
    \o (IF unstaged.len > unstaged.nl
        THEN << <<Piece("# Unstaged\n", 11), Piece(unstaged.tag, unstaged.len - unstaged.nl)>> >>
        ELSE <<>>)
    \o (IF patches # <<>> THEN << <<Piece("# Untracked\n", 12)>> \o JoinText(patches) >>
        ELSE <<>>)

\* _apply_delta that trusts whatever delta printed.
apply_delta_any_exit(diff_text, delta) ==
    IF delta \in {"ok", "nonzero"}
    THEN [text |-> <<[tag |-> "delta", len |-> TextLen(diff_text) + 7, arg |-> diff_text]>>,
          use_delta |-> TRUE]
    ELSE [text |-> diff_text, use_delta |-> FALSE]

\* _apply_delta: delta's output and True when the binary is there and exits
\* with 0, else the text as it came and False.
apply_delta(diff_text, delta) ==
    IF delta = "ok"
    THEN [text |-> <<[tag |-> "delta", len |-> TextLen(diff_text) + 7, arg |-> diff_text]>>,
          use_delta |-> TRUE]
    ELSE [text |-> diff_text, use_delta |-> FALSE]

\* "\n".join(lines)
RECURSIVE JoinLines(_)
JoinLines(lines) ==
    IF lines = <<>> THEN <<>>
    ELSE IF Len(lines) = 1 THEN lines[1]
    ELSE lines[1] \o <<"\n">> \o JoinLines(Tail(lines))

\* _get_commit_info that needs only the hash line.
get_commit_info_any(lines) ==
    IF lines = <<>> THEN <<>>
    ELSE << [sha |-> Strip(lines[1]), author |-> <<>>, date |-> <<>>, subject |-> <<>>,
             body |-> Strip(JoinLines(SubSeq(lines, 2, Len(lines))))] >>

\* _get_commit_info: None for blank output and for fewer than 4 lines, else
\* the first four lines stripped and the rest, joined and stripped, as body
get_commit_info(lines) ==
    IF Strip(JoinLines(lines)) = <<>> \/ Len(lines) < 4 THEN <<>>
    ELSE << [sha |-> Strip(lines[1]), author |-> Strip(lines[2]), date |-> Strip(lines[3]),
             subject |-> Strip(lines[4]),
             body |-> Strip(JoinLines(SubSeq(lines, 5, Len(lines))))] >>

\* What the queries of one view print and how delta behaves.
Deltas == {"absent", "ok", "nonzero", "spawn_error"}
WorkingInputs ==
    [kind : {"working"},
     staged : {NoContent, Content("staged", 30, 1), Content("staged", 250000, 1)},
     unstaged : {NoContent, Content("unstaged", 40, 1)},
     files : {0, 1, 2, max_untracked_diffs, max_untracked_diffs + 1, MaxUntracked},
     failing : {0, 1},
     delta : Deltas,
     header : {<<>>}]
CommitInputs ==
    [kind : {"commit"},
     staged : {NoContent, Content("patch", 60, 1), Content("patch", 200002, 1),
               Content("patch", 200000, 0)},
     unstaged : {NoContent},
     files : {0},
     failing : {0},
     delta : Deltas,
     header : {<<>>,
               << <<"abc123">> >>,
               << <<"abc123">>, <<"Ada">>, <<"Mon">> >>,
               << <<"abc123">>, <<"Ada", Space>>, <<"Mon">>, <<"Add", Space, "feature">> >>,
               << <<"abc123">>, <<"Ada">>, <<"Mon">>, <<"Add">>, <<"Body", Space, "1">>,
                  <<"Body2">>, <<>> >>}]

DiffInit ==
    /\ AppInit
    /\ GateInit
    /\ ParseIdle
    /\ EnumIdle
    /\ RunnerIdle
    /\ DivIdle
    /\ PrIdle
    /\ diff_in \in WorkingInputs \cup CommitInputs
    /\ diff_stage = "queries"
    /\ diff_done = <<>>
    /\ file_queries = 0
    /\ assembled = <<>>
    /\ delta_input = <<>>
    /\ diff_result = NoDiffResult
    /\ TableIdle

\* The i-th result of gather(staged_task, unstaged_task, untracked_task).
Gathered(i) ==
    LET t == GatherSlot(diff_done, i) IN
    CASE t = 1 -> diff_in.staged
      [] t = 2 -> diff_in.unstaged
      [] OTHER -> [tag |-> "listing", len |-> 0, nl |-> 0, files |-> diff_in.files]

\* From the assembled text on: the early return for empty text, the
\* truncation, and _apply_delta up to its await.
DiffTail(commit_info, diff_text) ==
    /\ assembled' = diff_text
    /\ IF diff_text = <<>>
       THEN /\ diff_result' = [info |-> commit_info, text |-> <<>>, use_delta |-> FALSE]
            /\ diff_stage' = "returned"
            /\ UNCHANGED delta_input
       ELSE /\ delta_input' = <<Truncate(diff_text)>>
            /\ IF diff_in.delta = "absent"
               THEN /\ diff_result' =
                         [info |-> commit_info] @@ apply_delta(Truncate(diff_text), "absent")
                    /\ diff_stage' = "returned"
               ELSE /\ diff_result' = [diff_result EXCEPT !.info = commit_info]
                    /\ diff_stage' = "delta"

\* One of the three queries of _build_diff_text completes; after the last
\* one the per-file diffs of the untracked names are started.
diff_query_returned(t) ==
    /\ diff_in.kind = "working"
    /\ diff_stage = "queries"
    /\ \A k \in DOMAIN diff_done : diff_done[k] # t
    /\ diff_done' = Append(diff_done, t)
    /\ IF Len(diff_done) = 2
       THEN /\ diff_stage' = "files"
            /\ file_queries' = Min(diff_in.files, max_untracked_diffs)
       ELSE UNCHANGED <<diff_stage, file_queries>>
    /\ UNCHANGED <<diff_in, assembled, delta_input, diff_result>>
    /\ UNCHANGED <<appvars, gatevars, parsevars, enumvars, runnervars, divvars, prvars, tablevars>>

\* The per-file diffs are gathered and _build_diff_text runs on to the
\* await in _apply_delta or to its return.
diff_files_returned ==
    /\ diff_stage = "files"
    /\ DiffTail(<<>>, JoinText(Parts(Gathered(1), Gathered(2),
                                   untracked_patches(Gathered(3).files, diff_in.failing))))
    /\ UNCHANGED <<diff_in, diff_done, file_queries>>
    /\ UNCHANGED <<appvars, gatevars, parsevars, enumvars, runnervars, divvars, prvars, tablevars>>

\* _build_commit_view: the header query, the patch query, diff_raw.strip("\n")
\* and on to the await in _apply_delta or to its return.
commit_queries_returned ==
    /\ diff_in.kind = "commit"
    /\ diff_stage = "queries"
    /\ DiffTail(get_commit_info(diff_in.header),
                IF diff_in.staged.len > diff_in.staged.nl
                THEN <<Piece(diff_in.staged.tag, diff_in.staged.len - diff_in.staged.nl)>>
                ELSE <<>>)
    /\ UNCHANGED <<diff_in, diff_done, file_queries>>
    /\ UNCHANGED <<appvars, gatevars, parsevars, enumvars, runnervars, divvars, prvars, tablevars>>

\* _apply_delta resumes from delta (or from the failed spawn).
delta_returned ==
    /\ diff_stage = "delta"
    /\ diff_stage' = "returned"
    /\ diff_result' = [info |-> diff_result.info] @@ apply_delta(delta_input[1], diff_in.delta)
    /\ UNCHANGED <<diff_in, diff_done, file_queries, assembled, delta_input>>
    /\ UNCHANGED <<appvars, gatevars, parsevars, enumvars, runnervars, divvars, prvars, tablevars>>

DiffNext ==
    \/ \E t \in 1..3 : diff_query_returned(t)
    \/ diff_files_returned
    \/ commit_queries_returned
    \/ delta_returned

SpecDiff == DiffInit /\ [][DiffNext]_vars

\* ------------------------------------------------------------------ table
\* update_table and the handlers that call it. Texts are sequences of atoms;
\* row keys are paths.
NoKey == <<>>

\* str.lower() of the atoms used here
Lower(s) ==
    [i \in 1..Len(s) |-> CASE s[i] = "Feature" -> "feature"
                           [] s[i] = "Fix" -> "fix"
                           [] OTHER -> s[i]]

\* needle in hay
Contains(hay, needle) ==
    \E i \in 1..(Len(hay) - Len(needle) + 1) : SubSeq(hay, i, i + Len(needle) - 1) = needle

\* os.path.basename
basename(path) ==
    LET seps == {i \in 1..Len(path) : path[i] = "/"} IN
        IF seps = {} THEN path ELSE SubSeq(path, Max(seps) + 1, Len(path))

\* name = os.path.basename(wt.path) if not wt.is_main else "main"
DisplayName(wt) == IF wt.is_main THEN <<"main">> ELSE basename(wt.path)

\* the path searched whatever the query
Matches_path_always(wt, query) ==
    \/ Contains(Lower(DisplayName(wt)), query)
    \/ Contains(Lower(wt.branch), query)
    \/ Contains(Lower(wt.path), query)

\* any(query in h for h in haystacks)
Matches(wt, query) ==
    \/ Contains(Lower(DisplayName(wt)), query)
    \/ Contains(Lower(wt.branch), query)
    \/ /\ \E i \in 1..Len(query) : query[i] = "/"
       /\ Contains(Lower(wt.path), query)

\* filtered_wts for self.filter_query = value
Filtered(recs, value) ==
    LET query == Lower(Strip(value)) IN
        IF query = <<>> THEN recs ELSE SelectSeq(recs, LAMBDA wt : Matches(wt, query))

\* the order of the atoms as Python strings
Code(a) ==
    CASE a = "/" -> 1 [] a = "1" -> 2 [] a = "2" -> 3 [] a = "Feature" -> 4
      [] a = "Fix" -> 5 [] a = "feature" -> 6 [] a = "fix" -> 7 [] a = "main" -> 8
      [] a = "repo" -> 9 [] a = "w" -> 10 [] OTHER -> 0

\* p < q for strings
RECURSIVE PathLess(_, _)
PathLess(p, q) ==
    IF q = <<>> THEN FALSE
    ELSE IF p = <<>> THEN TRUE
    ELSE IF Head(p) = Head(q) THEN PathLess(Tail(p), Tail(q))
    ELSE Code(Head(p)) < Code(Head(q))

\* list.sort is stable: records with equal keys keep their order
Sorted(recs, by_active) ==
    LET n == Len(recs)
        Before(a, b) ==
            IF by_active
            THEN \/ recs[a].last_active_ts > recs[b].last_active_ts
                 \/ recs[a].last_active_ts = recs[b].last_active_ts /\ a < b
            ELSE \/ PathLess(recs[a].path, recs[b].path)
                 \/ recs[a].path = recs[b].path /\ a < b
        perm == CHOOSE f \in [1..n -> 1..n] : \A i, j \in 1..n : i < j => Before(f[i], f[j])
    IN  [i \in 1..n |-> recs[perm[i]]]

\* update_table leaving the cursor on the first row of the rebuilt table
update_table_cursor_reset(recs, value, by_active, old_rows, old_cursor) ==
    LET shown == Sorted(Filtered(recs, value), by_active) IN
        [rows |-> [i \in 1..Len(shown) |-> shown[i].path],
         cursor_row |-> IF shown = <<>> THEN 0 ELSE 1]

\* update_table: the key under the cursor is saved, the table is cleared (the
\* cursor goes to the first row) and refilled, and the cursor moves to the
\* saved key's row when get_row_index finds it.
update_table(recs, value, by_active, old_rows, old_cursor) ==
    LET current_row_key == IF old_rows # <<>> THEN old_rows[old_cursor] ELSE NoKey
        shown == Sorted(Filtered(recs, value), by_active)
        keys == [i \in 1..Len(shown) |-> shown[i].path]
        found == {i \in 1..Len(keys) : keys[i] = current_row_key}
    IN  [rows |-> keys,
         cursor_row |-> IF found # {} THEN CHOOSE i \in found : TRUE
                        ELSE IF keys = <<>> THEN 0 ELSE 1]

Rebuild(recs, value, by_active) ==
    LET t == update_table(recs, value, by_active, rows, cursor_row) IN
        /\ rows' = t.rows
        /\ cursor_row' = t.cursor_row

WtRecord(path, branch, is_main, ts) ==
    [path |-> path, branch |-> branch, is_main |-> is_main, last_active_ts |-> ts]

\* the records of the keyboard-flow test, and a list with capitals in names
ScenarioList ==
    << WtRecord(<<"/", "repo">>, <<"main">>, TRUE, 2),
       WtRecord(<<"/", "w", "/", "feature", "1">>, <<"feature", "1">>, FALSE, 1),
       WtRecord(<<"/", "w", "/", "feature", "2">>, <<"feature", "2">>, FALSE, 3) >>
MixedList ==
    << WtRecord(<<"/", "repo">>, <<"main">>, TRUE, 2),
       WtRecord(<<"/", "w", "/", "1">>, <<"Fix">>, FALSE, 2),
       WtRecord(<<"/", "w", "/", "Feature">>, <<"2">>, FALSE, 3) >>
TableLists == {<<>>, ScenarioList, MixedList}

FilterValues ==
    {<<>>, <<Space>>, <<"feature", "1">>, <<Space, "Feature", Space>>, <<"fix">>,
     <<"w">>, <<"/", "w">>, <<"main">>, <<"repo">>}

\* refresh_data resumes: self.worktrees = ...; self.update_table()
table_refreshed(recs) ==
    /\ table_worktrees' = recs
    /\ Rebuild(recs, filter_query, sort_by_active)
    /\ last_event' = "refresh"
    /\ UNCHANGED <<filter_query, sort_by_active>>
    /\ UNCHANGED <<appvars, gatevars, parsevars, enumvars, runnervars, divvars, prvars, diffvars>>

\* fetch_pr_data_async resumes: the pr fields are set; self.update_table()
table_pr_fetched ==
    /\ Rebuild(table_worktrees, filter_query, sort_by_active)
    /\ last_event' = "pr_fetch"
    /\ UNCHANGED <<table_worktrees, filter_query, sort_by_active>>
    /\ UNCHANGED <<appvars, gatevars, parsevars, enumvars, runnervars, divvars, prvars, diffvars>>

on_filter_changed(value) ==
    /\ filter_query' = value
    /\ Rebuild(table_worktrees, value, sort_by_active)
    /\ last_event' = "filter"
    /\ UNCHANGED <<table_worktrees, sort_by_active>>
    /\ UNCHANGED <<appvars, gatevars, parsevars, enumvars, runnervars, divvars, prvars, diffvars>>

action_sort ==
    /\ sort_by_active' = ~sort_by_active
    /\ Rebuild(table_worktrees, filter_query, ~sort_by_active)
    /\ last_event' = "sort"
    /\ UNCHANGED <<table_worktrees, filter_query>>
    /\ UNCHANGED <<appvars, gatevars, parsevars, enumvars, runnervars, divvars, prvars, diffvars>>

\* action_cursor_down / action_cursor_up on the table
table_cursor_moved(i) ==
    /\ i \in 1..Len(rows)
    /\ i \in {cursor_row - 1, cursor_row + 1}
    /\ cursor_row' = i
    /\ last_event' = "cursor"
    /\ UNCHANGED <<table_worktrees, filter_query, sort_by_active, rows>>
    /\ UNCHANGED <<appvars, gatevars, parsevars, enumvars, runnervars, divvars, prvars, diffvars>>

TableNext ==
    \/ \E recs \in TableLists : table_refreshed(recs)
    \/ table_pr_fetched
    \/ \E value \in FilterValues : on_filter_changed(value)
    \/ action_sort
    \/ \E i \in 1..3 : table_cursor_moved(i)

SpecTable == Init /\ [][TableNext]_vars

\* ------------------------------------------------------------ properties
Range(f) == {f[i] : i \in DOMAIN f}
Issued(r, cmd) == \E i \in DOMAIN r.log : r.log[i].cmd = cmd
Destructive == {"worktree_remove", "branch_delete"}
RequiredCmds == {"worktree_add", "checkout", "merge", "worktree_remove", "branch_delete"}

\* C1: in an absorb run, once the checkout or the merge step has failed, no
\* `git worktree remove` and no `git branch -D` is issued afterwards and the run
\* triggers no refresh.
C1_AbsorbFailFast ==
    \A k \in DOMAIN runs :
        runs[k].op = "absorb" =>
            \A i \in DOMAIN runs[k].log :
                (runs[k].log[i].cmd \in {"checkout", "merge"} /\ runs[k].log[i].res = "fail")
                => /\ \A j \in DOMAIN runs[k].log :
                        j > i => runs[k].log[j].cmd \notin Destructive
                   /\ runs[k].triggered = 0

C1_Witness ==
    \E k \in DOMAIN runs :
        /\ runs[k].op = "absorb"
        /\ runs[k].outcome = "failed"
        /\ runs[k].log[Len(runs[k].log)] = [cmd |-> "merge", res |-> "fail"]

\* C2: in every delete or absorb run, `git branch -D` is issued only directly
\* after a `git worktree remove --force` of the same run that succeeded; after a
\* failed remove no branch deletion is issued.
C2_BranchDeleteAfterRemove ==
    \A k \in DOMAIN runs :
        \A j \in DOMAIN runs[k].log :
            /\ runs[k].log[j].cmd = "branch_delete"
               => /\ j > 1
                  /\ runs[k].log[j - 1] = [cmd |-> "worktree_remove", res |-> "ok"]
            /\ (runs[k].log[j].cmd = "worktree_remove" /\ runs[k].log[j].res = "fail")
               => j = Len(runs[k].log)

C2_Witness ==
    \E k \in DOMAIN runs :
        /\ runs[k].op \in {"delete", "absorb"}
        /\ Issued(runs[k], "branch_delete")

\* C3: delete and absorb never get past a selected main worktree: no
\* confirmation is pending for a record with is_main, and no delete or absorb
\* run (hence none of its hook, checkout, merge, remove or branch commands)
\* exists for one.
C3_MainRejected ==
    /\ screen = "confirm" => (~pending.wt.is_main /\ pending.wt.path # MainPath)
    /\ \A k \in DOMAIN runs :
        runs[k].op \in {"delete", "absorb"}
        => (~runs[k].wt.is_main /\ runs[k].wt.path # MainPath)

C3_Witness ==
    /\ main_rejected
    /\ cursor = MainPath
    /\ FindWorktree(cursor).is_main
    /\ screen = "main"
    /\ runs = <<>>

\* C4 (as claimed): a run whose required steps all succeeded and that has ended
\* has triggered exactly one refresh; a run with a failed required step has
\* triggered none.
C4_RefreshIffSuccess ==
    \A k \in DOMAIN runs :
        LET r == runs[k]
            allok == \A c \in Range(Steps(r.op)) \cap RequiredCmds :
                         \E i \in DOMAIN r.log : r.log[i] = [cmd |-> c, res |-> "ok"]
            failed == \E i \in DOMAIN r.log :
                         r.log[i].cmd \in RequiredCmds /\ r.log[i].res = "fail"
        IN  /\ (allok /\ r.outcome # "running") => r.triggered = 1
            /\ failed => r.triggered = 0

\* C5 (as claimed): a confirmed mutation that is no longer running either ran
\* all its steps and triggered the refresh, or stopped at a failed step with an
\* error notification, whatever else was started meanwhile.
C5_NoSilentStop ==
    \A k \in DOMAIN runs :
        LET r == runs[k] IN
            \/ r.outcome = "running"
            \/ r.outcome = "succeeded" /\ r.triggered = 1
            \/ /\ r.outcome = "failed"
               /\ r.errs = 1
               /\ r.log[Len(r.log)].res = "fail"

C7_Bounded ==
    /\ Holding <= Cap
    /\ sem_value >= 0
    /\ sem_value + Holding = Cap
    /\ sem_waiters # <<>> => Holding = Cap
    /\ \A e \in 1..MaxEnums :
        enums[e].holding + enums[e].finished + Waiting(e) <= enums[e].n
IsMarker(line) == Len(line) >= 2 /\ line[1] = "worktree" /\ line[2] = Space
Markers == {i \in DOMAIN raw_wts : IsMarker(raw_wts[i])}
MarkerCount == Cardinality(Markers)
\* a branch line comes only after a worktree line, as in git's own output
BranchAfterWorktree ==
    \A i \in DOMAIN raw_wts :
        (Len(raw_wts[i]) >= 2 /\ raw_wts[i][1] = "branch" /\ raw_wts[i][2] = Space)
            => \E j \in Markers : j < i
RecordsMatchMarkers ==
    /\ stage \in {"parsed", "returned"} => Len(wts) = MarkerCount
    /\ result.kind # "KeyError"
    /\ result.kind = "list" =>
        /\ Len(result.recs) = MarkerCount
        /\ \A i \in DOMAIN result.recs : result.recs[i].is_main <=> (i = 1)
\* C8: for any sequence of lines the records parsed and returned number as
\* many as the lines starting with "worktree ", and exactly the first has
\* is_main.
C8_AnyListing == RecordsMatchMarkers
\* The same holds of every listing in which no branch line precedes the first
\* worktree line.
WellFormedListing == BranchAfterWorktree => RecordsMatchMarkers

PathsDistinct ==
    result.kind = "list" =>
        \A i, j \in DOMAIN result.recs :
            result.recs[i].path = result.recs[j].path => i = j
IsChange(line) ==
    /\ Len(line) >= 4
    /\ line[1] \in {"1", "2"}
    /\ line[2] = Space
    /\ line[3] # Space
    /\ line[4] # Space
CountLines(P(_)) == Cardinality({i \in DOMAIN status_raw : P(status_raw[i])})
\* C10: in every record returned for a status output, staged is the number of
\* "1 XY" / "2 XY" lines with X other than ".", modified the number of those
\* with Y other than ".", untracked the number of lines flagged "?", and
\* dirty holds exactly when the three counters sum to more than zero.
C10_StatusCounts ==
    info.kind = "ok" =>
        /\ info.rec.staged = CountLines(LAMBDA l : IsChange(l) /\ l[3] # ".")
        /\ info.rec.modified = CountLines(LAMBDA l : IsChange(l) /\ l[4] # ".")
        /\ info.rec.untracked = CountLines(LAMBDA l : l # <<>> /\ l[1] = "?")
        /\ info.rec.dirty <=>
             (info.rec.untracked + info.rec.modified + info.rec.staged > 0)
C10_Witness ==
    /\ info.kind = "ok"
    /\ info.rec.dirty
    /\ info.rec.staged = 2
    /\ info.rec.modified = 1
    /\ info.rec.untracked = 0

\* What the status outputs of the three directories amount to.
DirCounts ==
    [p \in EnumPaths |->
        CASE p = "/a" -> [ahead |-> 1, behind |-> 2, untracked |-> 0, modified |-> 0,
                          staged |-> 0, dirty |-> FALSE]
          [] p = "/b" -> [ahead |-> 0, behind |-> 0, untracked |-> 1, modified |-> 1,
                          staged |-> 0, dirty |-> TRUE]
          [] p = "/d" -> [ahead |-> 2, behind |-> 1, untracked |-> 0, modified |-> 0,
                          staged |-> 1, dirty |-> TRUE]]
\* C11: the list get_worktrees returns has one record per parsed dict, in
\* listing order, and record i carries the counts of the status output of its
\* own directory, in whatever order the status queries completed.
C11_ListingOrder ==
    (stage = "returned" /\ result.kind = "list") =>
        /\ Len(result.recs) = Len(wts)
        /\ \A i \in DOMAIN result.recs :
            /\ result.recs[i].path = wts[i].path
            /\ result.recs[i].branch = wts[i].branch
            /\ \A f \in DOMAIN DirCounts["/a"] :
                result.recs[i][f] = DirCounts[wts[i].path[1]][f]
C11_Witness ==
    /\ stage = "returned"
    /\ result.kind = "list"
    /\ Len(result.recs) = 3
    /\ done_order = <<3, 1, 2>>
    /\ result.recs[1].path = <<"/a">>
    /\ result.recs[2].path = <<"/b">>
    /\ result.recs[3].path = <<"/d">>

\* C12: when the listing command yields the empty string, get_worktrees
\* returns the empty list, does not raise, and starts no other command than
\* the listing.
C12_EmptyListing ==
    raw_wts = <<>> =>
        /\ stage \in {"idle", "listed", "returned"}
        /\ issued \in {<<>>, << <<"worktree_list">> >>}
        /\ stage = "returned" => result = [kind |-> "list", recs |-> <<>>]

WellFormedBranchLine(l) ==
    LET bars == {k \in DOMAIN l : l[k] = "|"} IN
    /\ Cardinality(bars) = 2
    /\ \E k \in bars :
        /\ k < Len(l)
        /\ \A j \in (k + 1)..Len(l) : l[j] \in {"0", "1", "2", "3"}
\* C13: whatever the branch query printed, the enumeration goes on to its
\* status queries, and every well-formed line of the output has its entry in
\* branch_info.
C13_TolerantBranchParsing ==
    (raw_wts # <<>> /\ stage \in {"gathering", "returned"}) =>
        /\ DOMAIN query_infos = DOMAIN wts
        /\ \A k \in DOMAIN branch_raw :
            WellFormedBranchLine(branch_raw[k]) =>
                /\ <<branch_raw[k][1]>> \in DOMAIN branch_info

Whitespace == {Space, "\n"}
Failure(c) == c.kind \notin {"ok", "raised"}
RunGitFailures == {i \in DOMAIN calls : calls[i].fn = "run_git" /\ Failure(calls[i])}
\* C14: a run_git call never lets an exception out; when the exit code is not
\* accepted or the process could not be run it returns the empty string and
\* calls the deduplicating notifier once; on an accepted exit code it calls no
\* notifier and returns stdout, with the whitespace at both ends removed
\* unless strip is false.
C14_RunGitNeverRaises ==
    call.fn = "run_git" =>
        /\ call.kind # "raised"
        /\ IF call.outcome.exc # "none" \/ call.outcome.code \notin call.ok
           THEN call.ret = <<>> /\ call.notified = 1
           ELSE /\ call.notified = 0
                /\ ~call.strip => call.ret = call.outcome.stdout
                /\ call.strip =>
                    \E i \in 1..(Len(call.outcome.stdout) + 1),
                       j \in 0..Len(call.outcome.stdout) :
                        /\ call.ret = SubSeq(call.outcome.stdout, i, j)
                        /\ \A k \in DOMAIN call.outcome.stdout :
                            (k < i \/ k > j) => call.outcome.stdout[k] \in Whitespace
                        /\ call.ret # <<>> =>
                            (Head(call.ret) \notin Whitespace
                             /\ call.ret[Len(call.ret)] \notin Whitespace)
C14_Witness ==
    /\ call.fn = "run_git"
    /\ call.outcome.exc = "PermissionError"
    /\ call.ret = <<>>
    /\ call.notified = 1
    /\ \E i \in DOMAIN calls :
        /\ calls[i].fn = "run_git"
        /\ calls[i].kind = "ok"
        /\ ~calls[i].visible

\* C15: of the failing run_git calls with one dedup key, the first shows its
\* notification and every later one shows none; every key of a failure is in
\* the set of seen keys, and that set never loses a key.
C15_KeyShownOnce ==
    \A i \in RunGitFailures :
        /\ calls[i].key \in notified_errors
        /\ calls[i].visible <=>
             (\A j \in RunGitFailures : j < i => calls[j].key # calls[i].key)
C15_NotifiedAtMostOnce ==
    /\ []C15_KeyShownOnce
    /\ [][notified_errors \subseteq notified_errors']_vars
C15_Witness ==
    /\ Len(calls) = 3
    /\ RunGitFailures = {1, 2, 3}
    /\ calls[1].key = calls[2].key
    /\ calls[2].key = calls[3].key
    /\ calls[1].visible
    /\ ~calls[2].visible
    /\ ~calls[3].visible

FirstOfPair(i) ==
    \A j \in RunGitFailures :
        j < i => (calls[j].cwd # calls[i].cwd \/ calls[j].args # calls[i].args)
C17_RunCheckedNotifiesEveryFailure ==
    /\ call.fn = "run_checked" =>
        /\ call.ret <=> (call.outcome.exc = "none" /\ call.outcome.code = 0)
        /\ call.notified = IF call.ret THEN 0 ELSE 1
    /\ \A i \in DOMAIN calls :
        calls[i].fn = "run_checked" =>
            /\ calls[i].visible <=> calls[i].kind # "ok"
            /\ calls[i].key \notin notified_errors
C17_Witness ==
    /\ Len(calls) = 3
    /\ \A i \in 1..3 :
        /\ calls[i].fn = "run_checked"
        /\ calls[i].kind = "checked_fail"
        /\ calls[i].visible
        /\ calls[i].cwd = calls[1].cwd
        /\ calls[i].args = calls[1].args

\* C18: between two mutations the rev-list ahead/behind query of a non-main
\* worktree is started at most once, whatever the first query returned and
\* whether or not the first view was still waiting or had been superseded.
C18_RevListAtMostOnce ==
    \A wt \in DivTrees : ~wt.is_main => revlists[wt.path] <= 1

\* C19: for the main worktree get_div never starts a rev-list query, never
\* writes a divergence cache entry, and returns the empty string.
C19_MainNeverQueried ==
    \A wt \in DivTrees : wt.is_main =>
        /\ revlists[wt.path] = 0
        /\ CacheKey(wt) \notin DOMAIN divergence_cache
        /\ wt_divergence[wt.path] = <<>>
        /\ last_div.path = wt.path => last_div.value = <<>>

C19_Witness ==
    /\ view.st = "done"
    /\ view.path = MainPath
    /\ last_div.path = MainPath
    /\ lookups >= 1
    /\ main_branch # ""
    /\ divergence_cache # <<>>

\* C20: the symbolic-ref lookup is started at most once in a session and
\* every get_main_branch call returns the same value.
C20_ResolvedOnce ==
    /\ lookups <= 1
    /\ Cardinality(returned) <= 1

\* A step in which fetch_pr_data runs to its end.
FetchReturns == pr_fetch /\ ~pr_fetch' /\ ~pr_refresh'

\* C21: when the PR listing query produces the empty string the fetch ends
\* with no data, which is not the empty mapping of a parsed empty list; no
\* record's pr field changes and the loaded flag stays false.
C21_EmptyIsNoData ==
    [][FetchReturns /\ pr_last'.raw.text = ""
        => /\ pr_last'.outcome = "none"
           /\ pr_records' = pr_records
           /\ ~pr_data_loaded /\ ~pr_data_loaded'
           /\ fetch_pr_map(JsonList(<<>>)) = [kind |-> "map", map |-> <<>>]]_vars

C21_Witness ==
    /\ pr_last = [raw |-> EmptyOutput, outcome |-> "none"]
    /\ ~pr_fetch
    /\ ~pr_data_loaded

\* a non-empty output that is not a list of entries carrying all five keys
Malformed(pr_raw) ==
    /\ pr_raw.text # ""
    /\ ~(/\ pr_raw.text = "json"
          /\ pr_raw.doc.type = "list"
          /\ \A k \in DOMAIN pr_raw.doc.items :
                {"headRefName", "state", "number", "title", "url"}
                    \subseteq DOMAIN pr_raw.doc.items[k])

\* C22: every malformed non-empty PR listing output ends the fetch with no
\* data and the problem reported, and nothing is raised.
C22_MalformedNoData ==
    (pr_last.outcome # "idle" /\ Malformed(pr_last.raw))
        => /\ pr_last.outcome = "none"
           /\ <<"pr_json_decode">> \in notified_errors

\* C23: between two refreshes the PR listing query is started at most once
\* after a fetch has been started, also when a second request is made while
\* the first is still in flight.
C23_FetchedOnce == pr_queries <= 1

Pieces(text, Test(_)) == SelectSeq(text, Test)
IsPatch(p) == p = Piece("patch", 19)
IsNote(p) == p.tag = "note"
IsHeader(p) == p.tag \in {"# Staged\n", "# Unstaged\n", "# Untracked\n"}
Built == diff_stage \in {"delta", "returned"}
OverCap == diff_in.kind = "working" /\ diff_in.files > max_untracked_diffs

\* C25 as stated: with more untracked files than the cap the assembled text
\* holds exactly cap synthetic diffs and a note stating the cap and the total.
C25_CappedOutput ==
    (OverCap /\ Built)
        => /\ Len(Pieces(assembled, IsPatch)) = max_untracked_diffs
           /\ \E i \in DOMAIN assembled :
                 /\ assembled[i].tag = "note"
                 /\ assembled[i].arg = <<max_untracked_diffs, diff_in.files>>

\* C25: with more untracked files than the cap, exactly cap per-file diff
\* queries are started, and the text assembled before truncation and
\* pretty-printing holds one note, stating the cap and the total, and one
\* synthetic diff for each of those queries that printed something.
C25_CappedAssembly ==
    (OverCap /\ Built)
        => /\ file_queries = max_untracked_diffs
           /\ Len(Pieces(assembled, IsPatch)) =
                 max_untracked_diffs
                 - (IF diff_in.failing \in 1..max_untracked_diffs THEN 1 ELSE 0)
           /\ Pieces(assembled, IsNote) =
                 << [tag |-> "note", len |-> 52,
                     arg |-> <<max_untracked_diffs, diff_in.files>>] >>

C25_Witness ==
    /\ OverCap
    /\ diff_stage = "returned"
    /\ diff_in.files = MaxUntracked
    /\ diff_in.failing = 1
    /\ file_queries = max_untracked_diffs
    /\ Len(Pieces(assembled, IsPatch)) = max_untracked_diffs - 1

\* the headers the assembled text must show for the contents printed
ExpectedHeaders ==
    (IF diff_in.staged # NoContent THEN <<"# Staged\n">> ELSE <<>>)
    \o (IF diff_in.unstaged # NoContent THEN <<"# Unstaged\n">> ELSE <<>>)
    \o (IF \/ diff_in.files > max_untracked_diffs
            \/ \E i \in 1..diff_in.files : i # diff_in.failing
        THEN <<"# Untracked\n">> ELSE <<>>)

\* C26: the assembled text holds the sections Staged, Unstaged, Untracked
\* in this order whatever order the three queries completed in, each header
\* followed by its content, a section being there iff its content is not
\* empty; with all three empty the result is the empty text and False.
C26_SectionOrder ==
    (diff_in.kind = "working" /\ Built)
        => /\ [i \in DOMAIN Pieces(assembled, IsHeader) |->
                  Pieces(assembled, IsHeader)[i].tag] = ExpectedHeaders
           /\ \A i \in DOMAIN assembled :
                 /\ assembled[i].tag = "# Staged\n" =>
                       assembled[i + 1] = Piece("staged", diff_in.staged.len - 1)
                 /\ assembled[i].tag = "# Unstaged\n" =>
                       assembled[i + 1] = Piece("unstaged", diff_in.unstaged.len - 1)
                 /\ assembled[i].tag = "# Untracked\n" =>
                       /\ assembled[i + 1].tag \in {"note", "patch"}
                       /\ i + 1 = Len(assembled) \/ assembled[i + 2].tag = "\n\n"
           /\ ExpectedHeaders = <<>> =>
                 /\ diff_stage = "returned"
                 /\ diff_result = [info |-> <<>>, text |-> <<>>, use_delta |-> FALSE]

C26_Witness ==
    /\ diff_in.kind = "working"
    /\ diff_stage = "returned"
    /\ diff_done = <<3, 1, 2>>
    /\ ExpectedHeaders = <<"# Staged\n", "# Unstaged\n", "# Untracked\n">>

\* C27: assembled text longer than the size cap is passed on as its first
\* max_chars characters followed by the truncation marker; text of at most
\* max_chars characters is passed on unchanged (working and commit diffs).
C27_TruncatedToCap ==
    (Built /\ assembled # <<>>)
        => IF TextLen(assembled) > max_chars
           THEN /\ TextLen(delta_input[1]) = max_chars + 15
                /\ Take(delta_input[1], max_chars) = Take(assembled, max_chars)
                /\ delta_input[1][Len(delta_input[1])] = Piece("\n\n# [truncated]", 15)
           ELSE delta_input[1] = assembled

C27_Witness ==
    /\ diff_in.kind = "commit"
    /\ diff_stage = "returned"
    /\ TextLen(assembled) = max_chars + 1
    /\ ~diff_result.use_delta
    /\ TextLen(diff_result.text) = max_chars + 15

\* C28: whenever delta is run, its input is the raw text after truncation:
\* not empty, at most max_chars plus the marker's length, and marked when
\* the assembled text was longer than the cap.
C28_TruncationBeforeDelta ==
    /\ (diff_in.kind # "none" /\ diff_in.delta # "absent" /\ delta_input # <<>>)
          => /\ TextLen(delta_input[1]) > 0
             /\ TextLen(delta_input[1]) <= max_chars + 15
             /\ TextLen(assembled) > max_chars
                   => delta_input[1][Len(delta_input[1])].tag = "\n\n# [truncated]"
             /\ diff_result.use_delta => diff_result.text[1].arg = delta_input[1]
    /\ (Built /\ assembled = <<>>) => (delta_input = <<>> /\ diff_stage = "returned")

C28_Witness ==
    /\ diff_stage = "returned"
    /\ diff_result.use_delta
    /\ TextLen(assembled) > max_chars
    /\ diff_in.kind = "working"

\* C29: the flag is true iff the delta binary is there and exits with 0,
\* and then the text returned is delta's output; otherwise the text
\* returned is the raw, possibly truncated, text and the flag is false.
C29_DeltaFallback ==
    (diff_stage = "returned" /\ assembled # <<>>)
        => /\ diff_result.use_delta <=> diff_in.delta = "ok"
           /\ diff_result.use_delta =>
                 /\ Len(diff_result.text) = 1
                 /\ diff_result.text[1].tag = "delta"
           /\ ~diff_result.use_delta => diff_result.text = delta_input[1]

C29_Witness ==
    /\ diff_stage = "returned"
    /\ diff_in.delta = "nonzero"
    /\ diff_result.text = assembled
    /\ assembled # <<>>

\* C30: the commit view returns no info whenever the header query printed
\* fewer than 4 lines, along with the diff text of the patch query; with 4
\* lines or more the info holds lines 1 to 4 as hash, author, date and
\* subject and the remaining lines as the body.
C30_CommitInfo ==
    (diff_in.kind = "commit" /\ Built)
        => /\ assembled = (IF diff_in.staged = NoContent THEN <<>>
                           ELSE <<Piece("patch", diff_in.staged.len - diff_in.staged.nl)>>)
           /\ IF Len(diff_in.header) < 4
              THEN diff_result.info = <<>>
              ELSE /\ Len(diff_result.info) = 1
                   /\ diff_result.info[1].sha = <<"abc123">>
                   /\ diff_result.info[1].author = <<"Ada">>
                   /\ diff_result.info[1].date = <<"Mon">>
                   /\ diff_result.info[1].subject[1] = "Add"
                   /\ diff_result.info[1].body \in
                         {<<>>, <<"Body", Space, "1", "\n", "Body2">>}

C30_Witness ==
    /\ diff_in.kind = "commit"
    /\ diff_stage = "returned"
    /\ Len(diff_in.header) = 3
    /\ diff_result.info = <<>>
    /\ diff_result.text # <<>>

\* the step a pipeline takes up once its hook step is over or passed over
AfterHooks(r) ==
    CASE r.op = "create" -> r.outcome = "succeeded" /\ r.triggered = 1
      [] r.op = "delete" -> Issued(r, "worktree_remove")
      [] r.op = "absorb" -> Issued(r, "symbolic_ref") \/ Issued(r, "checkout")

\* C31: a run whose hook file failed to load has run no hook command and has
\* gone on to the step after the hooks (the removal, and the branch deletion
\* after it, or create's refresh); a hook step that failed is followed by
\* that step as well.
C31_HooksNeverBlock ==
    \A k \in DOMAIN runs :
        LET r == runs[k] IN
        /\ r.config_err => (~Issued(r, "hooks") /\ AfterHooks(r))
        /\ (\E j \in DOMAIN r.log : r.log[j] = [cmd |-> "hooks", res |-> "fail"])
              => AfterHooks(r)
        /\ (r.config_err /\ r.outcome = "succeeded" /\ r.op # "create")
              => (Issued(r, "worktree_remove") /\ Issued(r, "branch_delete"))

C31_Witness ==
    \E k \in DOMAIN runs :
        /\ runs[k].op = "delete"
        /\ runs[k].config_err
        /\ runs[k].outcome = "succeeded"
        /\ runs[k].log[Len(runs[k].log)] = [cmd |-> "branch_delete", res |-> "ok"]

\* C32: a create run whose `git worktree add` failed has reported the
\* failure, run no init hook and triggered no refresh; init hooks are run
\* only after an add that succeeded, and before the refresh.
C32_CreateStopsOnAddFailure ==
    \A k \in DOMAIN runs :
        LET r == runs[k] IN
        r.op = "create" =>
            /\ (\E j \in DOMAIN r.log : r.log[j] = [cmd |-> "worktree_add", res |-> "fail"])
                  => /\ r.outcome = "failed"
                     /\ r.errs = 1
                     /\ ~Issued(r, "hooks")
                     /\ r.triggered = 0
                     /\ ~r.config_err
            /\ \A j \in DOMAIN r.log :
                  r.log[j].cmd = "hooks"
                  => /\ j > 1
                     /\ r.log[j - 1] = [cmd |-> "worktree_add", res |-> "ok"]
                     /\ r.log[j].res \in {"pending", "cancelled"} => r.triggered = 0

C32_Witness ==
    \E k \in DOMAIN runs :
        /\ runs[k].op = "create"
        /\ runs[k].outcome = "failed"
        /\ runs[k].log[Len(runs[k].log)] = [cmd |-> "worktree_add", res |-> "fail"]
        /\ nrefresh = 1

C39_CacheCoherent ==
    /\ [](\A wt \in DivTrees :
            wt_divergence[wt.path] # <<>>
            => /\ CacheKey(wt) \in DOMAIN divergence_cache
               /\ divergence_cache[CacheKey(wt)] = wt_divergence[wt.path])
    /\ [][\A k \in DOMAIN divergence_cache :
            k \in DOMAIN divergence_cache' /\ divergence_cache'[k] = divergence_cache[k]]_vars

C39_Witness ==
    /\ wt_divergence["wt1"] = <<"Main", "1", "2">>
    /\ divergence_cache[<<"wt1", ":", "feat">>] = <<"Main", "1", "2">>
    /\ view.st = "done"

\* C34: self.worktrees changes only in the one step in which a refresh in
\* flight assigns the complete list built from a listing, the main record
\* first; no other step adds or removes a record.
C34_AtomicRebuild ==
    [][worktrees' # worktrees
        => /\ writer' \in refreshing
           /\ writer' \notin refreshing'
           /\ writer' \in written'
           /\ \E snap \in Snapshots :
                worktrees' = [i \in 1..Len(snap) |->
                                [path |-> snap[i], is_main |-> (i = 1)]]]_vars

C34_Witness ==
    /\ written = {1, 2}
    /\ writer = 2
    /\ worktrees = Records(<<MainPath, "wt1">>)
    /\ "fetch_pr_data_async" \in active

\* C40: a declined confirmation, a dismissed prompt and an empty or blank
\* name start no worker: no pipeline, no refresh, and the list is unchanged.
C40_NoAnswerNoMutation ==
    [][(\/ ConfirmDismissed(FALSE)
        \/ \E name \in {"", " ", "dismissed"} : InputDismissed(name))
        => /\ runs' = runs
           /\ nrefresh' = nrefresh
           /\ refreshing' = refreshing
           /\ active' = active
           /\ worktrees' = worktrees
           /\ declined']_vars

C40_Witness ==
    /\ declined
    /\ screen = "main"
    /\ runs = <<>>
    /\ writer = 1
    /\ nrefresh = 1
    /\ worktrees = Records(<<MainPath, "wt1">>)

\* C37 (as claimed): a refresh that is in flight eventually assigns the list,
\* unless a later refresh is started.
C37_RefreshCompletes ==
    \A id \in 1..MaxRefresh :
        (id \in refreshing) ~> (id \in written \/ nrefresh > id)

\* C38: while the flag is true no refresh is in flight; the step in which a
\* refresh installs its list leaves the flag false; and the flag becomes true
\* only in the step that joins a fetched map onto the list then current.
C38_FlagCoherent ==
    /\ [](pr_data_loaded => ~pr_refresh)
    /\ [][pr_refresh_returned => ~pr_data_loaded']_vars
    /\ [][(~pr_data_loaded /\ pr_data_loaded')
            => /\ pr_fetch
               /\ \E pr_raw \in PrOutputs :
                    /\ fetch_pr_map(pr_raw).kind = "map"
                    /\ pr_records' = [i \in DOMAIN pr_records |->
                                        Attach(pr_records[i], fetch_pr_map(pr_raw).map)]]_vars

\* a fetch joined its data, then a refresh replaced the list: the flag is off
C38_Witness ==
    /\ pr_last.outcome = "map"
    /\ pr_records = FreshRecords
    /\ ~pr_data_loaded
    /\ ~pr_refresh
    /\ ~pr_fetch
    /\ pr_queries = 0

\* C35: a rebuild (refresh, PR fetch, filter change, sort toggle) leaves the
\* cursor on the path it was on, at whatever row that path now has, whenever
\* the path is among the rows after the rebuild.
C35_SelectionSurvives ==
    [][(/\ last_event' # "cursor"
        /\ rows # <<>>
        /\ \E i \in 1..Len(rows') : rows'[i] = rows[cursor_row])
        => (cursor_row' \in 1..Len(rows') /\ rows'[cursor_row'] = rows[cursor_row])]_vars

C35_Witness ==
    /\ last_event = "sort"
    /\ sort_by_active
    /\ table_worktrees = ScenarioList
    /\ Len(rows) = 3
    /\ cursor_row = 3
    /\ rows[3] = <<"/", "w", "/", "feature", "1">>

\* C36 (as claimed): the rows are exactly the records whose display name or
\* branch contains the trimmed, lower-cased query, or whose path does when
\* the query has a "/"; every record for an empty query.
C36_ShownAsClaimed ==
    LET query == Lower(Strip(filter_query)) IN
        {rows[i] : i \in 1..Len(rows)} =
            {table_worktrees[k].path : k \in
                {j \in 1..Len(table_worktrees) :
                    LET wt == table_worktrees[j] IN
                        \/ query = <<>>
                        \/ Contains(DisplayName(wt), query)
                        \/ Contains(wt.branch, query)
                        \/ /\ \E i \in 1..Len(query) : query[i] = "/"
                           /\ Contains(wt.path, query)}}

\* C36 (amended): the rows are exactly the records whose lower-cased display
\* name or lower-cased branch contains the trimmed, lower-cased query, or
\* whose lower-cased path does when the query has a "/"; every record for an
\* empty query; the scenario's query feature1 shows one row.
C36_ShownLowerCased ==
    LET query == Lower(Strip(filter_query)) IN
        /\ {rows[i] : i \in 1..Len(rows)} =
              {table_worktrees[k].path : k \in
                  {j \in 1..Len(table_worktrees) :
                      LET wt == table_worktrees[j] IN
                          \/ query = <<>>
                          \/ Contains(Lower(DisplayName(wt)), query)
                          \/ Contains(Lower(wt.branch), query)
                          \/ /\ \E i \in 1..Len(query) : query[i] = "/"
                             /\ Contains(Lower(wt.path), query)}}
        /\ Len(rows) <= Len(table_worktrees)
        /\ (table_worktrees = ScenarioList /\ filter_query = <<"feature", "1">>)
            => rows = << <<"/", "w", "/", "feature", "1">> >>

C36_Witness ==
    /\ table_worktrees = MixedList
    /\ filter_query = <<"fix">>
    /\ rows = << <<"/", "w", "/", "1">> >>
    /\ last_event = "filter"

====
